---- MODULE Spec2Model ----
(***************************************************************************)
(* Frame-selection engine of YellowToyCar (scripts/ai):                    *)
(*   - the candidate selector   (frame_selection_core.select_candidate_... *)
(*   - the change-statistics pipeline and percentile thresholds            *)
(*   - the diversity pruner     (farthest_point_sampling)                  *)
(*   - the embedding store and the background embedding worker             *)
(* Each part has its own specification over its own variables; the other   *)
(* parts' variables stay at their initial values.                          *)
(***************************************************************************)
EXTENDS Integers, Sequences, FiniteSets, TLC

VARIABLES
    \* ---- candidate selector (select_candidate_frames) ----
    sel_pc,            \* "idle" before the call, "done" after it
    total_change,      \* argument total_change   [T-1]
    concentration,     \* argument concentration  [T-1]
    entropy,           \* argument entropy        [T-1]
    concentration_threshold,
    total_change_threshold,
    entropy_threshold,
    min_spacing,
    final_selected,    \* the returned list
    \* ---- diversity pruner (farthest_point_sampling) ----
    fps_pc,            \* "idle" before the call, "done" after it
    fps_points,        \* argument embeddings: N points
    n_samples,         \* argument n_samples
    fps_seed,          \* the index np.random.randint(n_points) drew
    fps_out,           \* the returned index array
    \* ---- change statistics and FrameSelectionData ----
    data_pc,           \* "idle", "ready" (data built), "selected" (select_frames returned)
    patch_changes,     \* [T-1][P] per-patch L2 changes (compute_patch_changes)
    total_change_raw,  \* FrameSelectionData.total_change_raw
    concentration_raw, \* FrameSelectionData.concentration_raw
    entropy_raw,       \* FrameSelectionData.entropy_raw
    data_total_change, \* FrameSelectionData.total_change   (smoothed)
    data_concentration,\* FrameSelectionData.concentration  (smoothed)
    data_entropy,      \* FrameSelectionData.entropy        (smoothed)
    temporal_window,   \* FrameSelectionData.temporal_window
    concentration_percentile,
    total_change_percentile,
    entropy_percentile,
    data_min_spacing,  \* min_spacing of the last select_frames call
    selected_indices,  \* result of the last select_frames call
    \* ---- embedding store, background worker, GUI session ----
    frames_dir,        \* number of frames in the input directory (f1..fn)
    files,             \* the cache directory: key -> [pt, json]
    runs,              \* workers started so far
    w,                 \* the worker's constructor arguments
    w_pc,              \* the worker thread's position
    w_done,            \* rows collected in all_embeddings_list
    is_cancelled,      \* EmbeddingGenerationWorker._is_cancelled
    w_result,          \* what load_or_compute_embeddings returned
    w_exc,             \* the exception that left load_or_compute_embeddings
    emitted,           \* terminal signals the run emitted (finished / error)
    handled,           \* how many of them the GUI thread has handled
    progress_open,     \* the QProgressDialog is showing (Cancel available)
    gui_pc,            \* "idle", or "clearing" inside load_data
    gui_outcome,       \* how the last load_data ended
    installed,         \* the embeddings the session installed last
    clr,               \* clear_other_caches in progress: owner, keep, phase
    \* ---- history of the current run, read by the properties only ----
    files_at_start,    \* the cache directory when the worker started
    w_check_view,      \* the entry the cache check looked at
    cancel_phase,      \* "none"; cancel() came: "requested" (run in progress),
                       \* "boundary" (a batch boundary followed it),
                       \* "completed" (load_or_compute had already returned)
    late_batches,      \* batches started after that boundary
    w_save_failed,     \* a write of save_embeddings_cache raised
    backend_invoked,   \* load_model was called
    \* ---- cache key (compute_cache_key), two calls side by side ----
    key_pc,            \* "idle", "keyed" (one call made), "compared" (two)
    key_config,        \* argument config of the first call
    key_frames,        \* argument frames of the first call (list of paths)
    key_bytes,         \* the bytes the first call fed to the hasher
    cli_bytes,         \* the same for select_frames_vit.compute_cache_key
    key_config2,       \* the second call's arguments and bytes
    key_frames2,
    key_bytes2,
    cli_bytes2,
    \* ---- one save_embeddings_cache and the loads that follow it ----
    rt_pc,             \* "idle", "saved", "loaded"
    rt_config,         \* argument config of the save
    rt_frames,         \* argument frames of the save
    rt_array,          \* argument embeddings of the save
    rt_key,            \* the key the two files were written under
    rt_pt,             \* content of embeddings_<key>.pt
    rt_json,           \* content of embeddings_<key>.json (the parsed text)
    rt_meta,           \* what load_cached_embeddings_meta returned
    rt_loaded,         \* what load_cached_embeddings_data returned
    \* ---- the frame catalog (collect_frames) ----
    cat_pc,            \* "idle", "done" (collected), "exit_1" or "embedding"
    cat_listing,       \* input_dir.iterdir(): the filenames as enumerated
    cat_core,          \* frame_selection_core.collect_frames: the names
    cat_cli,           \* select_frames_vit.collect_frames: the names
    \* ---- target-count auto-calibration (select_frames_vit.main) ----
    cal_pc,            \* "idle", "loop" (inside the for), "done"
    cal_args,          \* the smoothed signals and args.* of the run
    percentile,        \* the loop variable of range(95, 0, -5)
    best_candidates,   \* best_candidates
    cal_runs,          \* calls of select_candidate_frames so far
    \* ---- the geometric stage of get_transform ----
    geo_pc,            \* "idle" before the transform is applied, "done"
    geo_args,          \* the image's size, image_size, mode and alignment
    geo_resized,       \* what _ResizePreservingAspect asks resize for
    geo_out,           \* the image after _AlignedCrop / _AlignedPad
    \* ---- the manual selection of the visualizer's session ----
    session_frames,    \* len(self.data), 0 while self.data is None
    selected_for_preview_index,  \* NoPreview standing for None
    manually_selected,
    manually_unselected,
    selector_output,   \* what the last data.select_frames returned
    current_processing_selection

selVars == <<sel_pc, total_change, concentration, entropy,
             concentration_threshold, total_change_threshold,
             entropy_threshold, min_spacing, final_selected>>

fpsVars == <<fps_pc, fps_points, n_samples, fps_seed, fps_out>>

dataVars == <<data_pc, patch_changes, total_change_raw, concentration_raw,
              entropy_raw, data_total_change, data_concentration,
              data_entropy, temporal_window, concentration_percentile,
              total_change_percentile, entropy_percentile, data_min_spacing,
              selected_indices>>

storeVars == <<frames_dir, files, runs, w, w_pc, w_done, is_cancelled,
               w_result, w_exc, emitted, handled, progress_open, gui_pc,
               gui_outcome, installed, clr, files_at_start, w_check_view,
               cancel_phase, late_batches, w_save_failed, backend_invoked>>

keyVars == <<key_pc, key_config, key_frames, key_bytes, cli_bytes,
             key_config2, key_frames2, key_bytes2, cli_bytes2>>

rtVars == <<rt_pc, rt_config, rt_frames, rt_array, rt_key, rt_pt, rt_json,
            rt_meta, rt_loaded>>

\* the parts added after the store
catVars == <<cat_pc, cat_listing, cat_core, cat_cli>>

calVars == <<cal_pc, cal_args, percentile, best_candidates, cal_runs>>

geoVars == <<geo_pc, geo_args, geo_resized, geo_out>>

manVars == <<session_frames, selected_for_preview_index, manually_selected,
             manually_unselected, selector_output,
             current_processing_selection>>

moreVars == <<geoVars, manVars>>

auxVars == <<keyVars, rtVars, catVars, calVars, moreVars>>

vars == <<selVars, fpsVars, dataVars, storeVars, auxVars>>

----------------------------------------------------------------------------
(* Bounds of the candidate-selector inputs *)

\* longest signal (T-1 transitions) given to the selector
MaxLen == 3
\* largest min_spacing given to the selector
MaxSpacing == 2

\* values a concentration sample takes (ties and strict maxima both occur)
ConcVals == 0 .. 2
\* values a total_change / entropy sample takes
LevelVals == 0 .. 1

SeqsOf(S, n) == [1 .. n -> S]

(* Bounds of the diversity-pruner inputs *)

\* largest number of points given to farthest_point_sampling
MaxPoints == 3

\* coordinates of a point (points on a line; equal coordinates are duplicates)
CoordVals == 0 .. 2

(* Bounds of the change-statistics pipeline *)

\* most transitions (T-1) of an embedding sequence given to the pipeline
MaxTransitions == 2
\* largest temporal smoothing window
MaxWindow == 3

\* patches per frame
Patches == 1 .. 2
\* per-patch change magnitudes, in units of DiffUnit
DiffVals == 0 .. 2
\* percentiles handed to select_frames
PercentileVals == {0, 50, 100}

(* Bounds of the embedding store and worker *)

\* most frames the input directory holds
MaxFrames == 3
\* workers started in one behaviour
MaxRuns == 2
\* batch sizes offered to the worker (the last batch of 3 frames is short)
BatchSizes == {2}
\* cache entries the directory holds when the session opens (SpecStoreEnv)
MaxFound == 1

----------------------------------------------------------------------------
(* Generic sequence helpers *)

Range(s) == {s[i] : i \in DOMAIN s}

Last(s) == s[Len(s)]

Indices(n) == [i \in 1 .. n |-> i]

Abs(x) == IF x < 0 THEN 0 - x ELSE x

MinOf(S) == CHOOSE x \in S : \A y \in S : x <= y

MaxOf(S) == CHOOSE x \in S : \A y \in S : x >= y

\* insertion of x into an ascending sequence, after the elements equal to it
RECURSIVE InsertSorted(_, _)
InsertSorted(s, x) ==
    IF s = << >> THEN <<x>>
    ELSE IF x < Head(s) THEN <<x>> \o s
         ELSE <<Head(s)>> \o InsertSorted(Tail(s), x)

\* sorted(s) / np.sort(s): ascending, repeated values kept
RECURSIVE Sorted(_)
Sorted(s) ==
    IF s = << >> THEN << >>
    ELSE InsertSorted(Sorted(SubSeq(s, 1, Len(s) - 1)), Last(s))

----------------------------------------------------------------------------
(* select_candidate_frames, frame_selection_core.py:525-576.               *)
(* A python transition index t (0-based) is position t+1 of the TLA+       *)
(* sequence, so "candidate_indices + 1" (the frame index) is the TLA+      *)
(* position itself, and concentration[idx - 1] of the code is conc[idx].   *)

\* mask = (concentration >= cthr) & (total_change >= tthr) & (entropy <= ethr)
MaskStrict(total, conc, ent, cthr, tthr, ethr) ==
    [i \in 1 .. Len(conc) |->
        conc[i] > cthr /\ total[i] > tthr /\ ent[i] < ethr]

Mask(total, conc, ent, cthr, tthr, ethr) ==
    [i \in 1 .. Len(conc) |->
        conc[i] >= cthr /\ total[i] >= tthr /\ ent[i] <= ethr]

\* candidate_indices = np.where(mask)[0] + 1
CandidateIndicesUnshifted(mask) ==
    LET hits == SelectSeq(Indices(Len(mask)), LAMBDA i : mask[i])
    IN  [k \in 1 .. Len(hits) |-> hits[k] - 1]

CandidateIndices(mask) ==
    SelectSeq(Indices(Len(mask)), LAMBDA i : mask[i])

\* the inner loop over offset in range(-min_spacing, min_spacing + 1)
IsLocalMaxStrict(conc, idx, ms) ==
    \A offset \in (0 - ms) .. ms :
        (offset # 0 /\ 0 <= idx + offset - 1 /\ idx + offset - 1 < Len(conc))
            => conc[idx] > conc[idx + offset]

IsLocalMax(conc, idx, ms) ==
    \A offset \in (0 - ms) .. ms :
        (offset # 0 /\ 0 <= idx + offset - 1 /\ idx + offset - 1 < Len(conc))
            => ~(conc[idx] < conc[idx + offset])

\* selected = [idx for idx in candidate_indices if is_local_max]
LocalMaxima(cands, conc, ms) ==
    SelectSeq(cands, LAMBDA idx : IsLocalMax(conc, idx, ms))

\* final_selected = [selected[0]]; for idx in selected[1:]: ...
RECURSIVE SpacingScan(_, _, _, _)
SpacingScan(selected, k, acc, ms) ==
    IF k > Len(selected) THEN acc
    ELSE IF selected[k] - Last(acc) >= ms
         THEN SpacingScan(selected, k + 1, Append(acc, selected[k]), ms)
         ELSE SpacingScan(selected, k + 1, acc, ms)

EnforceSpacingOff(selected, ms) == selected

EnforceSpacing(selected, ms) ==
    IF Len(selected) <= 1 THEN selected
    ELSE SpacingScan(selected, 2, <<selected[1]>>, ms)

select_candidate_frames(total, conc, ent, cthr, tthr, ethr, ms) ==
    LET cands == CandidateIndices(Mask(total, conc, ent, cthr, tthr, ethr))
    IN  IF Len(cands) = 0 THEN << >>
        ELSE EnforceSpacing(LocalMaxima(cands, conc, ms), ms)

----------------------------------------------------------------------------
(* Change metrics, frame_selection_core.py:489-511, in fixed point.        *)
(* Magnitudes are integers counted in units of EPSILON (1e-8); one step of *)
(* DiffVals is DiffUnit of them.  Ratios (concentration, entropy) are      *)
(* integers counted in 1/FixedScale.                                       *)

EPSILON == 1

DiffUnit == 10 * 1000

FixedScale == 10 * 100

RECURSIVE SumSeq(_)
SumSeq(s) == IF s = << >> THEN 0 ELSE Head(s) + SumSeq(Tail(s))

\* np.log at the fractions n/1 that occur, in 1/FixedScale
LnMilli ==
    <<0, 693, 1099, 1386, 1609, 1792, 1946, 2079, 2197, 2303, 2398, 2485>>

\* total_change = changes_np.mean(axis=1)
TotalChangeOf(row) == (SumSeq(row) * DiffUnit) \div Len(row)

\* concentration = max_change / (total_change + EPSILON)
ConcentrationOf(row) ==
    (MaxOf(Range(row)) * DiffUnit * Len(row) * FixedScale)
        \div (SumSeq(row) * DiffUnit + Len(row) * EPSILON)

\* one term of -np.sum(p * np.log(p + EPSILON)), p = d / (sum + EPSILON):
\* p = 0 gives 0 * log(EPSILON) = 0; for p > 0 the EPSILON terms are below
\* the resolution and -p ln p = (d / sum) * (ln sum - ln d)
EntropyTerm(d, sum) ==
    IF d = 0 THEN 0 ELSE (d * (LnMilli[sum] - LnMilli[d])) \div sum

EntropyOf(row) ==
    SumSeq([k \in 1 .. Len(row) |-> EntropyTerm(row[k], SumSeq(row))])

\* compute_change_metrics: (total_change, concentration, entropy), each [T-1]
compute_change_metrics(changes) ==
    [total |-> [i \in 1 .. Len(changes) |-> TotalChangeOf(changes[i])],
     conc  |-> [i \in 1 .. Len(changes) |-> ConcentrationOf(changes[i])],
     ent   |-> [i \in 1 .. Len(changes) |-> EntropyOf(changes[i])]]

----------------------------------------------------------------------------
(* temporal_smoothing, frame_selection_core.py:514-522.                    *)
(* For window > 1 the result is kept exact as the window SUMS: the value   *)
(* the code returns is result[i] / window (see SmoothDen).                 *)

\* np.pad(signal, (k, k), mode='edge')
ZeroPad(signal, k) ==
    [p \in 1 .. Len(signal) + 2 * k |->
        IF p - k < 1 \/ p - k > Len(signal) THEN 0 ELSE signal[p - k]]

EdgePad(signal, k) ==
    [p \in 1 .. Len(signal) + 2 * k |->
        signal[IF p - k < 1 THEN 1
               ELSE IF p - k > Len(signal) THEN Len(signal) ELSE p - k]]

\* np.convolve(padded, np.ones(window), mode='valid'), not yet divided
ConvolveValid(padded, window) ==
    [j \in 1 .. Len(padded) - window + 1 |->
        SumSeq(SubSeq(padded, j, j + window - 1))]

\* smoothed[:len(signal)]
Unsliced(smoothed, n) == smoothed

SliceToSignal(smoothed, n) == SubSeq(smoothed, 1, n)

temporal_smoothing(signal, window) ==
    IF window <= 1 THEN signal
    ELSE SliceToSignal(
             ConvolveValid(EdgePad(signal, window \div 2), window),
             Len(signal))

\* the divisor the kernel np.ones(window) / window applies
SmoothDen(window) == IF window <= 1 THEN 1 ELSE window

----------------------------------------------------------------------------
(* FrameSelectionData.get_percentile_thresholds / select_frames,           *)
(* frame_selection_core.py:918-949.                                        *)

\* np.percentile(a, q), linear interpolation, multiplied by 100:
\* virtual index q/100 * (n-1) between the sorted neighbours lo and lo+1
Percentile100(a, q) ==
    LET srt  == Sorted(a)
        n    == Len(a)
        pos  == q * (n - 1)
        lo   == pos \div 100
        frac == pos % 100
        hi   == IF lo + 1 > n - 1 THEN n - 1 ELSE lo + 1
    IN  100 * srt[lo + 1] + (srt[hi + 1] - srt[lo + 1]) * frac

Times100(a) == [i \in 1 .. Len(a) |-> 100 * a[i]]

\* select_frames: thresholds are percentiles of the smoothed signals; the
\* signals and their thresholds are compared in the same unit (1/100 of
\* the signal's unit)
select_frames(total, conc, ent, cp, tp, ep, ms) ==
    select_candidate_frames(Times100(total), Times100(conc), Times100(ent),
                            Percentile100(conc, cp), Percentile100(total, tp),
                            Percentile100(ent, ep), ms)

----------------------------------------------------------------------------
(* farthest_point_sampling, frame_selection_core.py:579-602.               *)
(* Points and returned indices are 0-based as in the code: point i of the  *)
(* code is fps_points[i + 1].                                              *)

\* distances[i, j]: Euclidean distance of two points on a line
Distance(points, i, j) == Abs(points[i + 1] - points[j + 1])

\* min_distances = distances[:, selected].min(axis=1)
MinDistances(points, selected) ==
    [i \in 0 .. Len(points) - 1 |->
        MinOf({Distance(points, i, selected[k]) : k \in 1 .. Len(selected)})]

\* ndarray.argmax(): the first index holding the maximum
ArgMaxLast(f) ==
    LET m == MaxOf({f[i] : i \in DOMAIN f})
    IN  MaxOf({i \in DOMAIN f : f[i] = m})

ArgMax(f) ==
    LET m == MaxOf({f[i] : i \in DOMAIN f})
    IN  MinOf({i \in DOMAIN f : f[i] = m})

\* for _ in range(n_samples - 1): selected.append(min_distances.argmax())
RECURSIVE FpsLoop(_, _, _)
FpsLoop(points, selected, rounds) ==
    IF rounds <= 0 THEN selected
    ELSE FpsLoop(points,
                 Append(selected, ArgMax(MinDistances(points, selected))),
                 rounds - 1)

farthest_point_sampling(points, k, seed) ==
    IF k >= Len(points)
    THEN [i \in 1 .. Len(points) |-> i - 1]
    ELSE Sorted(FpsLoop(points, <<seed>>, k - 1))

----------------------------------------------------------------------------
(* Embedding configuration, cache key and cache files,                     *)
(* frame_selection_core.py:142-270, 314-347.                               *)

\* the live configuration of the session (EmbeddingConfig's defaults), and a
\* configuration that differs from it in one field
DefaultConfig ==
    [model |-> "vit_base_patch16_224.dino", model_input_size |-> 224,
     normalize |-> TRUE, transform |-> "pad|center"]

OtherConfig ==
    [model |-> "vit_base_patch16_224.dino", model_input_size |-> 224,
     normalize |-> FALSE, transform |-> "pad|center"]

NoConfig ==
    [model |-> "", model_input_size |-> 0, normalize |-> FALSE,
     transform |-> ""]

\* the configurations the embedding dialog offers
Configs == {DefaultConfig}

\* EmbeddingConfig.__eq__
EmbeddingConfigEq(a, b) ==
    /\ a.model = b.model
    /\ a.model_input_size = b.model_input_size
    /\ a.normalize = b.normalize
    /\ a.transform = b.transform

\* collect_frames: the catalog of a directory holding n frames, sorted
collect_frames(n) == [i \in 1 .. n |-> i]

\* compute_cache_key: SHA1 over the config fields and the sorted filenames;
\* the digest is kept as the pair it is computed from
compute_cache_key(config, frames) ==
    [config |-> config, names |-> Range(frames)]

Keys ==
    {compute_cache_key(c, collect_frames(n)) :
        c \in Configs, n \in 2 .. MaxFrames}

\* embeddings_<key>.pt: absent, truncated (a write that did not finish),
\* or a complete tensor of `rows` frames computed under `config`
NoPt == [state |-> "absent", rows |-> 0, config |-> NoConfig]

PartialPt == [state |-> "partial", rows |-> 0, config |-> NoConfig]

Tensor(rows, config) ==
    [state |-> "complete", rows |-> rows, config |-> config]

\* embeddings_<key>.json: absent, truncated/unparseable, or EmbeddingMeta
NoJson ==
    [state |-> "absent", version |-> 0, config |-> NoConfig,
     frame_count |-> 0, shape_rows |-> 0]

PartialJson ==
    [state |-> "partial", version |-> 0, config |-> NoConfig,
     frame_count |-> 0, shape_rows |-> 0]

\* EmbeddingMeta.to_dict written by json.dump
EmbeddingMeta(config, frame_count, shape_rows, version) ==
    [state |-> "valid", version |-> version, config |-> config,
     frame_count |-> frame_count, shape_rows |-> shape_rows]

EmptyDir == [k \in Keys |-> [pt |-> NoPt, json |-> NoJson]]

\* load_cached_embeddings_meta: None (NoJson) unless the file exists, parses
\* and carries version 1
load_cached_embeddings_meta_any_version(json) ==
    IF json.state = "valid" THEN json ELSE NoJson

load_cached_embeddings_meta(json) ==
    IF json.state = "valid" /\ json.version = 1 THEN json ELSE NoJson

\* load_cached_embeddings_data: None (NoPt) unless the file exists and decodes
load_cached_embeddings_data(pt) ==
    IF pt.state = "complete" THEN pt ELSE NoPt

find_existing_with_array(dir) ==
    {k \in Keys : /\ load_cached_embeddings_meta(dir[k].json).state = "valid"
                  /\ dir[k].pt.state = "complete"}

\* the loop of find_existing_cache_in_dir left at the first sidecar that
\* does not load
RECURSIVE FindExistingLoopAborting(_, _)
FindExistingLoopAborting(dir, todo) ==
    IF todo = {} THEN {}
    ELSE LET k == CHOOSE x \in todo : TRUE
             meta == load_cached_embeddings_meta(dir[k].json)
         IN  IF meta.state = "valid"
             THEN {k} \cup FindExistingLoopAborting(dir, todo \ {k})
             ELSE {}

\* for meta_path in sorted(glob("embeddings_*.json")): append what loads
RECURSIVE FindExistingLoop(_, _)
FindExistingLoop(dir, todo) ==
    IF todo = {} THEN {}
    ELSE LET k == CHOOSE x \in todo : TRUE
             meta == load_cached_embeddings_meta(dir[k].json)
         IN  (IF meta.state = "valid" THEN {k} ELSE {})
                 \cup FindExistingLoop(dir, todo \ {k})

\* find_existing_cache_in_dir: the keys whose sidecar loads
find_existing_cache_in_dir(dir) ==
    FindExistingLoop(dir, {k \in Keys : dir[k].json.state # "absent"})

\* the cache lookup of load_or_compute_embeddings (force = False):
\* the tensor when the sidecar exists, loads, its config equals the live
\* config and the tensor loads; NoPt otherwise
CacheLookup(dir, config, frames) ==
    LET entry == dir[compute_cache_key(config, frames)]
        meta  == load_cached_embeddings_meta(entry.json)
    IN  IF entry.json.state = "absent" THEN NoPt
        ELSE IF meta.state # "valid" THEN NoPt
        ELSE IF ~EmbeddingConfigEq(meta.config, config) THEN NoPt
        ELSE load_cached_embeddings_data(entry.pt)

----------------------------------------------------------------------------
(* Specification SpecSelect: one call of select_candidate_frames on every  *)
(* input of the bounded domain.                                            *)

SelIdle ==
    /\ sel_pc = "idle"
    /\ total_change = << >>
    /\ concentration = << >>
    /\ entropy = << >>
    /\ concentration_threshold = 0
    /\ total_change_threshold = 0
    /\ entropy_threshold = 0
    /\ min_spacing = 1
    /\ final_selected = << >>

FpsIdle ==
    /\ fps_pc = "idle"
    /\ fps_points = << >>
    /\ n_samples = 0
    /\ fps_seed = 0
    /\ fps_out = << >>

DataIdle ==
    /\ data_pc = "idle"
    /\ patch_changes = << >>
    /\ total_change_raw = << >>
    /\ concentration_raw = << >>
    /\ entropy_raw = << >>
    /\ data_total_change = << >>
    /\ data_concentration = << >>
    /\ data_entropy = << >>
    /\ temporal_window = 1
    /\ concentration_percentile = 0
    /\ total_change_percentile = 0
    /\ entropy_percentile = 0
    /\ data_min_spacing = 1
    /\ selected_indices = << >>

NoWorker ==
    [frames |-> << >>, config |-> NoConfig, batch_size |-> 1,
     force |-> FALSE, clear_others |-> FALSE]

NoResult == [state |-> "none", tensor |-> NoPt, from_cache |-> FALSE]

Returned(tensor, from_cache) ==
    [state |-> "returned", tensor |-> tensor, from_cache |-> from_cache]

NotInstalled ==
    [source |-> "none", rows |-> 0, frames |-> 0, meta |-> NoJson]

AnyKey == compute_cache_key(DefaultConfig, collect_frames(2))

NoClear == [owner |-> "none", keep |-> AnyKey, phase |-> "pt"]

Unchecked == [checked |-> FALSE, entry |-> [pt |-> NoPt, json |-> NoJson]]

\* before the session has opened a directory
StoreOpenedOn(dir, nframes) ==
    /\ frames_dir = nframes
    /\ files = dir
    /\ runs = 0
    /\ w = NoWorker
    /\ w_pc = "none"
    /\ w_done = 0
    /\ is_cancelled = FALSE
    /\ w_result = NoResult
    /\ w_exc = "none"
    /\ emitted = << >>
    /\ handled = 0
    /\ progress_open = FALSE
    /\ gui_pc = "idle"
    /\ gui_outcome = "none"
    /\ installed = NotInstalled
    /\ clr = NoClear
    /\ files_at_start = dir
    /\ w_check_view = Unchecked
    /\ cancel_phase = "none"
    /\ late_batches = 0
    /\ w_save_failed = FALSE
    /\ backend_invoked = FALSE

StoreOpened(dir) == StoreOpenedOn(dir, 2)

StoreIdle == StoreOpened(EmptyDir)

\* before compute_cache_key is called
NoKeyConfig ==
    [model |-> << >>, model_input_size |-> 0, normalize |-> FALSE,
     mode |-> << >>, alignment |-> << >>, fill |-> << >>]

KeyIdle ==
    /\ key_pc = "idle"
    /\ key_config = NoKeyConfig
    /\ key_frames = << >>
    /\ key_bytes = << >>
    /\ cli_bytes = << >>
    /\ key_config2 = NoKeyConfig
    /\ key_frames2 = << >>
    /\ key_bytes2 = << >>
    /\ cli_bytes2 = << >>

\* None, as the loaders return it, and a file that does not exist
None == [state |-> "none"]

Absent == [state |-> "absent"]

RtIdle ==
    /\ rt_pc = "idle"
    /\ rt_config = NoKeyConfig
    /\ rt_frames = << >>
    /\ rt_array = None
    /\ rt_key = << >>
    /\ rt_pt = Absent
    /\ rt_json = Absent
    /\ rt_meta = None
    /\ rt_loaded = None

CatIdle ==
    /\ cat_pc = "idle"
    /\ cat_listing = << >>
    /\ cat_core = << >>
    /\ cat_cli = << >>

NoCalArgs ==
    [total |-> << >>, conc |-> << >>, ent |-> << >>,
     total_change_percentile |-> 0, entropy_percentile |-> 0,
     min_spacing |-> 0, target_count |-> 0]

CalIdle ==
    /\ cal_pc = "idle"
    /\ cal_args = NoCalArgs
    /\ percentile = 0
    /\ best_candidates = << >>
    /\ cal_runs = 0

NoGeoArgs ==
    [width |-> 0, height |-> 0, image_size |-> 0, mode |-> "none",
     alignment |-> "none"]

NoImage == [state |-> "none", width |-> 0, height |-> 0]

NoGeoOut ==
    [state |-> "none", width |-> 0, height |-> 0, left |-> 0, top |-> 0,
     content_width |-> 0, content_height |-> 0]

GeoIdle ==
    /\ geo_pc = "idle"
    /\ geo_args = NoGeoArgs
    /\ geo_resized = NoImage
    /\ geo_out = NoGeoOut

\* MainWindow.__init__: no data, no preview frame, empty selections
ManIdle ==
    /\ session_frames = 0
    /\ selected_for_preview_index = -1
    /\ manually_selected = {}
    /\ manually_unselected = {}
    /\ selector_output = {}
    /\ current_processing_selection = {}

AuxIdle == KeyIdle /\ RtIdle /\ CatIdle /\ CalIdle /\ GeoIdle /\ ManIdle

InitSelect == SelIdle /\ FpsIdle /\ DataIdle /\ StoreIdle /\ AuxIdle

CallSelect ==
    /\ sel_pc = "idle"
    /\ \E n \in 1 .. MaxLen :
         \E tc \in SeqsOf(LevelVals, n), co \in SeqsOf(ConcVals, n),
            en \in SeqsOf(LevelVals, n) :
           \E cthr \in ConcVals, tthr \in LevelVals, ethr \in LevelVals,
              ms \in 1 .. MaxSpacing :
             /\ total_change' = tc
             /\ concentration' = co
             /\ entropy' = en
             /\ concentration_threshold' = cthr
             /\ total_change_threshold' = tthr
             /\ entropy_threshold' = ethr
             /\ min_spacing' = ms
             /\ final_selected' =
                    select_candidate_frames(tc, co, en, cthr, tthr, ethr, ms)
    /\ sel_pc' = "done"
    /\ UNCHANGED <<fpsVars, dataVars, storeVars, auxVars>>

NextSelect == CallSelect

SpecSelect == InitSelect /\ [][NextSelect]_vars

----------------------------------------------------------------------------
(* C1: the list select_candidate_frames returns is strictly increasing,    *)
(* every element lies in [1, T-1] (T-1 = the length of the signals), and   *)
(* two consecutive elements differ by at least min_spacing.                *)
C1_SelectorOutputShape ==
    sel_pc = "done" =>
        /\ \A k \in 1 .. Len(final_selected) :
              final_selected[k] \in 1 .. Len(concentration)
        /\ \A k \in 1 .. Len(final_selected) - 1 :
              /\ final_selected[k] < final_selected[k + 1]
              /\ final_selected[k + 1] - final_selected[k] >= min_spacing

\* a call where two tied candidates closer than min_spacing both survive the
\* local-maximum filter, so the spacing pass is what separates the output
C1_Witness ==
    /\ sel_pc = "done"
    /\ min_spacing = 2
    /\ Len(concentration) = 3
    /\ Len(LocalMaxima(CandidateIndices(Mask(total_change, concentration,
            entropy, concentration_threshold, total_change_threshold,
            entropy_threshold)), concentration, min_spacing)) = 3
    /\ final_selected = <<1, 3>>

----------------------------------------------------------------------------
(* Specification SpecFps: one call of farthest_point_sampling on every     *)
(* point set, target count and random seed index of the bounded domain.    *)

InitFps == SelIdle /\ FpsIdle /\ DataIdle /\ StoreIdle /\ AuxIdle

CallFps ==
    /\ fps_pc = "idle"
    /\ \E n \in 1 .. MaxPoints :
         \E pts \in SeqsOf(CoordVals, n), k \in 0 .. MaxPoints + 1,
            seed \in 0 .. n - 1 :
           /\ fps_points' = pts
           /\ n_samples' = k
           /\ fps_seed' = seed
           /\ fps_out' = farthest_point_sampling(pts, k, seed)
    /\ fps_pc' = "done"
    /\ UNCHANGED <<selVars, dataVars, storeVars, auxVars>>

NextFps == CallFps

SpecFps == InitFps /\ [][NextFps]_vars

IsAscendingDistinct(s) == \A a, b \in 1 .. Len(s) : a < b => s[a] < s[b]

(* C7: farthest_point_sampling over N points with target k returns         *)
(* [0..N-1] when k >= N, and for every k < N (k = 0 and duplicate points   *)
(* included) and every seed exactly k pairwise-distinct ascending indices. *)
C7_FpsExactlyKDistinct ==
    fps_pc = "done" =>
        /\ n_samples >= Len(fps_points) =>
              fps_out = [i \in 1 .. Len(fps_points) |-> i - 1]
        /\ n_samples < Len(fps_points) =>
              /\ Len(fps_out) = n_samples
              /\ IsAscendingDistinct(fps_out)

\* the part of C7 the code does satisfy: k >= N, or 1 <= k <= number of
\* distinct points (kept to show where the claim breaks and where it holds)
C7_FpsWhenEnoughDistinct ==
    (fps_pc = "done" /\ n_samples >= 1
        /\ n_samples <= Cardinality(Range(fps_points))) =>
        \/ n_samples >= Len(fps_points)
        \/ Len(fps_out) = n_samples /\ IsAscendingDistinct(fps_out)

\* duplicate points with k >= 1: an index is returned twice
C7_DuplicateIndexReturned ==
    /\ fps_pc = "done"
    /\ n_samples >= 1
    /\ n_samples < Len(fps_points)
    /\ ~IsAscendingDistinct(fps_out)

----------------------------------------------------------------------------
(* Specification SpecData: a FrameSelectionData built from every patch-    *)
(* change matrix of the bounded domain, then any sequence of               *)
(* apply_smoothing and select_frames calls.                                *)

InitData == SelIdle /\ FpsIdle /\ DataIdle /\ StoreIdle /\ AuxIdle

\* FrameSelectionData.apply_smoothing(window)
\* the signal apply_smoothing smooths: self.<signal>_raw
SmoothingSourceSmoothed(raw, smoothed) == smoothed

SmoothingSource(raw, smoothed) == raw

\* the smoothed signal of the object before the call: the copy of the raw
\* one that __init__ made, or what the last apply_smoothing left
SmoothedBefore(raw, smoothed) ==
    IF data_pc = "idle" THEN raw ELSE smoothed

apply_smoothing(window) ==
    /\ temporal_window' = window
    /\ data_total_change' =
          temporal_smoothing(
              SmoothingSource(total_change_raw',
                  SmoothedBefore(total_change_raw', data_total_change)),
              window)
    /\ data_concentration' =
          temporal_smoothing(
              SmoothingSource(concentration_raw',
                  SmoothedBefore(concentration_raw', data_concentration)),
              window)
    /\ data_entropy' =
          temporal_smoothing(
              SmoothingSource(entropy_raw',
                  SmoothedBefore(entropy_raw', data_entropy)),
              window)

\* create_frame_selection_data(frames, embeddings, temporal_window)
CreateFrameSelectionData ==
    /\ data_pc = "idle"
    /\ \E n \in 1 .. MaxTransitions :
         \E changes \in SeqsOf(SeqsOf(DiffVals, Cardinality(Patches)), n),
            window \in 1 .. MaxWindow :
           LET m == compute_change_metrics(changes)
           IN  /\ patch_changes' = changes
               /\ total_change_raw' = m.total
               /\ concentration_raw' = m.conc
               /\ entropy_raw' = m.ent
               /\ apply_smoothing(window)
    /\ data_pc' = "ready"
    /\ UNCHANGED <<concentration_percentile, total_change_percentile,
                   entropy_percentile, data_min_spacing, selected_indices>>
    /\ UNCHANGED <<selVars, fpsVars, storeVars, auxVars>>

ApplySmoothing ==
    /\ data_pc = "ready"
    /\ \E window \in 1 .. MaxWindow :
         /\ UNCHANGED <<total_change_raw, concentration_raw, entropy_raw>>
         /\ apply_smoothing(window)
    /\ UNCHANGED <<data_pc, patch_changes, concentration_percentile,
                   total_change_percentile, entropy_percentile,
                   data_min_spacing, selected_indices>>
    /\ UNCHANGED <<selVars, fpsVars, storeVars, auxVars>>

SelectFrames ==
    /\ data_pc = "ready"
    /\ \E cp \in PercentileVals, tp \in PercentileVals,
          ep \in PercentileVals, ms \in 1 .. MaxSpacing :
         /\ concentration_percentile' = cp
         /\ total_change_percentile' = tp
         /\ entropy_percentile' = ep
         /\ data_min_spacing' = ms
         /\ selected_indices' =
                select_frames(data_total_change, data_concentration,
                              data_entropy, cp, tp, ep, ms)
    /\ data_pc' = "selected"
    /\ UNCHANGED <<patch_changes, total_change_raw, concentration_raw,
                   entropy_raw, data_total_change, data_concentration,
                   data_entropy, temporal_window>>
    /\ UNCHANGED <<selVars, fpsVars, storeVars, auxVars>>

\* the caller takes the returned list; the data object is ready for the
\* next apply_smoothing / select_frames call
ReturnSelection ==
    /\ data_pc = "selected"
    /\ data_pc' = "ready"
    /\ concentration_percentile' = 0
    /\ total_change_percentile' = 0
    /\ entropy_percentile' = 0
    /\ data_min_spacing' = 1
    /\ selected_indices' = << >>
    /\ UNCHANGED <<patch_changes, total_change_raw, concentration_raw,
                   entropy_raw, data_total_change, data_concentration,
                   data_entropy, temporal_window>>
    /\ UNCHANGED <<selVars, fpsVars, storeVars, auxVars>>

NextData ==
    \/ CreateFrameSelectionData
    \/ ApplySmoothing
    \/ SelectFrames
    \/ ReturnSelection

SpecData == InitData /\ [][NextData]_vars

\* identical embeddings: every patch difference of every transition is zero
ZeroChange ==
    \A i \in 1 .. Len(patch_changes) :
        \A k \in 1 .. Len(patch_changes[i]) : patch_changes[i][k] = 0

\* 1, 1 + ms, 1 + 2 ms, ... up to n
EverySpacing(n, ms) == [k \in 1 .. ((n - 1) \div ms) + 1 |-> 1 + (k - 1) * ms]

(* C2 as stated: with identical embeddings and a total_change percentile   *)
(* greater than 0, select_frames returns an empty candidate list.          *)
C2_ZeroChangeSelectsNothing ==
    (data_pc = "selected" /\ ZeroChange /\ total_change_percentile > 0)
        => selected_indices = << >>

(* C2 as amended: with identical embeddings the three signals are 0, every *)
(* percentile threshold is 0, every transition passes the non-strict mask  *)
(* and every tie survives the local-maximum filter, so select_frames       *)
(* returns the non-empty list 1, 1 + min_spacing, 1 + 2 min_spacing, ...   *)
(* (<= T-1) for every percentile choice.                                   *)
C2_ZeroChangeSelectsEverySpacing ==
    (data_pc = "selected" /\ ZeroChange)
        => /\ \A i \in 1 .. Len(patch_changes) :
                 /\ total_change_raw[i] = 0
                 /\ concentration_raw[i] = 0
                 /\ entropy_raw[i] = 0
           /\ selected_indices =
                 EverySpacing(Len(patch_changes), data_min_spacing)

C2_Witness ==
    /\ data_pc = "selected"
    /\ ZeroChange
    /\ Len(patch_changes) = 2
    /\ total_change_percentile = 50
    /\ temporal_window = 3
    /\ data_min_spacing = 1
    /\ selected_indices = <<1, 2>>

----------------------------------------------------------------------------
(* Specification SpecStore: a GUI session over one input directory.  The   *)
(* user changes the directory's frames, opens it (load_data), starts the   *)
(* embedding worker and cancels it; the worker thread runs                 *)
(* load_or_compute_embeddings and save_embeddings_cache one file operation *)
(* at a time, and every file write or unlink may raise.                    *)

InitStore == SelIdle /\ FpsIdle /\ DataIdle /\ StoreIdle /\ AuxIdle

Others == <<selVars, fpsVars, dataVars, auxVars>>

WKey == compute_cache_key(w.config, w.frames)

WorkerIdle == w_pc \in {"none", "done"}

\* ---- the user and the GUI thread ----

\* frames are added to or removed from the input directory
\* if len(frames) < 2: of load_data, _generate_embeddings and the CLI's main
TooFewOnlyEmpty(n) == n < 1

TooFew(n) == n < 2

ChangeFrames ==
    /\ WorkerIdle /\ gui_pc = "idle" /\ handled = Len(emitted)
    /\ runs < MaxRuns
    /\ \E n \in 1 .. MaxFrames : n # frames_dir /\ frames_dir' = n
    /\ UNCHANGED <<files, runs, w, w_pc, w_done, is_cancelled, w_result,
                   w_exc, emitted, handled, progress_open, gui_pc,
                   gui_outcome, installed, clr, files_at_start, w_check_view,
                   cancel_phase, late_batches, w_save_failed, backend_invoked>>
    /\ UNCHANGED Others

\* _load_embeddings_succeeded(frames, embeddings) for a cache entry
InstalledFromCache(entry, nframes) ==
    [source |-> "cache", rows |-> entry.pt.rows, frames |-> nframes,
     meta |-> entry.json]

\* MainWindow.load_data
LoadData ==
    /\ WorkerIdle /\ gui_pc = "idle" /\ handled = Len(emitted)
    /\ LET cache_list == find_existing_cache_in_dir(files)
       IN  IF TooFew(frames_dir)
           THEN /\ gui_outcome' = "too_few"
                /\ UNCHANGED <<installed, clr, gui_pc>>
           ELSE IF cache_list = {}
           THEN /\ gui_outcome' = "not_found"
                /\ UNCHANGED <<installed, clr, gui_pc>>
           ELSE \/ \* the cache selection dialog is rejected
                   /\ Cardinality(cache_list) > 1
                   /\ gui_outcome' = "selection_cancelled"
                   /\ UNCHANGED <<installed, clr, gui_pc>>
                \/ \* the single entry, or the entry chosen in the dialog
                   \E k \in cache_list, should_clear_others \in BOOLEAN :
                     /\ Cardinality(cache_list) = 1 => ~should_clear_others
                     /\ IF load_cached_embeddings_data(files[k].pt).state
                             # "complete"
                        THEN /\ gui_outcome' = "broken"
                             /\ UNCHANGED <<installed, clr, gui_pc>>
                        ELSE IF should_clear_others
                        THEN /\ gui_pc' = "clearing"
                             /\ clr' = [owner |-> "gui", keep |-> k,
                                        phase |-> "pt"]
                             /\ UNCHANGED <<installed, gui_outcome>>
                        ELSE /\ gui_outcome' = "loaded"
                             /\ installed' =
                                   InstalledFromCache(files[k], frames_dir)
                             /\ UNCHANGED <<clr, gui_pc>>
    /\ UNCHANGED <<frames_dir, files, runs, w, w_pc, w_done, is_cancelled,
                   w_result, w_exc, emitted, handled, progress_open,
                   files_at_start, w_check_view, cancel_phase, late_batches,
                   w_save_failed, backend_invoked>>
    /\ UNCHANGED Others

\* MainWindow._generate_embeddings accepted: a worker is created and started
StartWorker ==
    /\ WorkerIdle /\ gui_pc = "idle" /\ handled = Len(emitted)
    /\ ~TooFew(frames_dir)
    /\ runs < MaxRuns
    /\ \E config \in Configs, batch_size \in BatchSizes,
          force \in BOOLEAN, clear_others \in BOOLEAN :
         w' = [frames |-> collect_frames(frames_dir), config |-> config,
               batch_size |-> batch_size, force |-> force,
               clear_others |-> clear_others]
    /\ runs' = runs + 1
    /\ w_pc' = "start"
    /\ w_done' = 0
    /\ is_cancelled' = FALSE
    /\ w_result' = NoResult
    /\ w_exc' = "none"
    /\ emitted' = << >>
    /\ handled' = 0
    /\ progress_open' = TRUE
    /\ files_at_start' = files
    /\ w_check_view' = Unchecked
    /\ cancel_phase' = "none"
    /\ late_batches' = 0
    /\ w_save_failed' = FALSE
    /\ backend_invoked' = FALSE
    /\ UNCHANGED <<frames_dir, files, gui_pc, gui_outcome, installed, clr>>
    /\ UNCHANGED Others

\* progress.canceled -> EmbeddingGenerationWorker.cancel
Cancel ==
    /\ progress_open /\ w_pc # "none"
    /\ is_cancelled' = TRUE
    /\ progress_open' = FALSE
    /\ cancel_phase' =
          IF w_pc = "returned" THEN "completed"
          ELSE IF w_pc # "done" THEN "requested"
          ELSE cancel_phase
    /\ UNCHANGED <<frames_dir, files, runs, w, w_pc, w_done, w_result, w_exc,
                   emitted, handled, gui_pc, gui_outcome, installed, clr,
                   files_at_start, w_check_view, late_batches, w_save_failed,
                   backend_invoked>>
    /\ UNCHANGED Others

\* MainWindow._on_embeddings_finished (queued from the worker thread)
GuiOnFinished ==
    /\ handled < Len(emitted) /\ emitted[handled + 1] = "finished"
    /\ gui_pc = "idle"
    /\ handled' = handled + 1
    /\ progress_open' = FALSE
    /\ installed' =
          [source |-> "worker", rows |-> w_result.tensor.rows,
           frames |-> Len(w.frames),
           meta |-> EmbeddingMeta(w.config, Len(w.frames),
                                  w_result.tensor.rows, 1)]
    /\ UNCHANGED <<frames_dir, files, runs, w, w_pc, w_done, is_cancelled,
                   w_result, w_exc, emitted, gui_pc, gui_outcome, clr,
                   files_at_start, w_check_view, cancel_phase, late_batches,
                   w_save_failed, backend_invoked>>
    /\ UNCHANGED Others

\* MainWindow._on_embeddings_error (queued from the worker thread)
GuiOnError ==
    /\ handled < Len(emitted) /\ emitted[handled + 1] = "error"
    /\ gui_pc = "idle"
    /\ handled' = handled + 1
    /\ progress_open' = FALSE
    /\ UNCHANGED <<frames_dir, files, runs, w, w_pc, w_done, is_cancelled,
                   w_result, w_exc, emitted, gui_pc, gui_outcome, installed,
                   clr, files_at_start, w_check_view, cancel_phase,
                   late_batches, w_save_failed, backend_invoked>>
    /\ UNCHANGED Others

\* ---- the worker thread: EmbeddingGenerationWorker.run ----

\* what no step of the worker thread changes
WorkerFrame ==
    /\ UNCHANGED <<frames_dir, runs, w, is_cancelled, handled, progress_open,
                   gui_pc, gui_outcome, installed, files_at_start>>
    /\ UNCHANGED Others

\* for start in range(0, len(frames), batch_size): the loop is over
LoopDoneAfterFirstBatch(done, total) == done >= 1

LoopDone(done, total) == done >= total

\* len(frames[start:start + batch_size])
BatchRows(start, batch_size, total) ==
    IF start + batch_size > total THEN total - start ELSE batch_size

\* progress_callback: if self.is_cancelled(): raise InterruptedError
ProgressRaisesNever(cancelled) == FALSE

ProgressRaises(cancelled) == cancelled

\* if not force: the cache is looked up
LookupSkippedNever(force) == FALSE

LookupSkipped(force) == force

\* load_or_compute_embeddings, the cache lookup (force skips it)
WorkerCheckCache ==
    /\ w_pc = "start"
    /\ IF LookupSkipped(w.force)
       THEN /\ w_pc' = "load_model"
            /\ UNCHANGED <<w_result, w_check_view>>
       ELSE /\ w_check_view' = [checked |-> TRUE, entry |-> files[WKey]]
            /\ LET hit == CacheLookup(files, w.config, w.frames)
               IN  IF hit.state = "complete"
                   THEN /\ w_result' = Returned(hit, TRUE)
                        /\ w_pc' = "returned"
                   ELSE /\ w_pc' = "load_model"
                        /\ UNCHANGED w_result
    /\ UNCHANGED <<files, w_done, w_exc, emitted, clr, cancel_phase,
                   late_batches, w_save_failed, backend_invoked>>
    /\ WorkerFrame

\* load_model / get_transform: the backend loads or raises
WorkerLoadModel ==
    /\ w_pc = "load_model"
    /\ backend_invoked' = TRUE
    /\ \/ w_pc' = "loop" /\ UNCHANGED w_exc
       \/ w_pc' = "raised" /\ w_exc' = "backend"
    /\ UNCHANGED <<files, w_done, w_result, emitted, clr, w_check_view,
                   cancel_phase, late_batches, w_save_failed>>
    /\ WorkerFrame

\* the next batch is opened, stacked and handed to the model
WorkerBatchStart ==
    /\ w_pc = "loop"
    /\ ~LoopDone(w_done, Len(w.frames))
    /\ w_pc' = "batch"
    /\ late_batches' =
          IF cancel_phase = "boundary" THEN late_batches + 1 ELSE late_batches
    /\ UNCHANGED <<files, w_done, w_result, w_exc, emitted, clr,
                   w_check_view, cancel_phase, w_save_failed, backend_invoked>>
    /\ WorkerFrame

\* where a batch that raised goes on: nothing in the loop catches, so the
\* exception leaves load_or_compute_embeddings
BatchFailureSkipped == "progress"

BatchFailure == "raised"

\* extract_patch_embeddings returns (or raises) and the batch is appended
WorkerBatchEnd ==
    /\ w_pc = "batch"
    /\ \/ /\ w_done' = w_done + BatchRows(w_done, w.batch_size, Len(w.frames))
          /\ w_pc' = "progress"
          /\ UNCHANGED w_exc
       \/ /\ w_pc' = BatchFailure
          /\ w_exc' = "backend"
          /\ UNCHANGED w_done
    /\ UNCHANGED <<files, w_result, emitted, clr, w_check_view, cancel_phase,
                   late_batches, w_save_failed, backend_invoked>>
    /\ WorkerFrame

\* progress(min(start + batch_size, len(frames)), len(frames))
WorkerProgress ==
    /\ w_pc = "progress"
    /\ cancel_phase' = IF is_cancelled THEN "boundary" ELSE cancel_phase
    /\ IF ProgressRaises(is_cancelled)
       THEN w_pc' = "raised" /\ w_exc' = "interrupted"
       ELSE w_pc' = "loop" /\ UNCHANGED w_exc
    /\ UNCHANGED <<files, w_done, w_result, emitted, clr, w_check_view,
                   late_batches, w_save_failed, backend_invoked>>
    /\ WorkerFrame

\* torch.cat, then save_embeddings_cache begins (mkdir, cache key, and
\* clear_other_caches first when clear_others is set)
WorkerLoopExit ==
    /\ w_pc = "loop"
    /\ LoopDone(w_done, Len(w.frames))
    /\ IF w.clear_others
       THEN /\ w_pc' = "save_clear"
            /\ clr' = [owner |-> "save", keep |-> WKey, phase |-> "pt"]
       ELSE /\ w_pc' = "save_pt_open"
            /\ UNCHANGED clr
    /\ UNCHANGED <<files, w_done, w_result, w_exc, emitted, w_check_view,
                   cancel_phase, late_batches, w_save_failed, backend_invoked>>
    /\ WorkerFrame

\* a write of save_embeddings_cache raised: the except clause prints a
\* warning and load_or_compute_embeddings returns (all_embeddings, False)
SaveRaises ==
    /\ w_save_failed' = TRUE
    /\ w_result' = Returned(Tensor(w_done, w.config), FALSE)
    /\ w_pc' = "returned"
    /\ UNCHANGED files

\* torch.save opens embeddings_<key>.pt for writing (truncating it)
SavePtOpen ==
    /\ w_pc = "save_pt_open"
    /\ \/ /\ files' = [files EXCEPT ![WKey].pt = PartialPt]
          /\ w_pc' = "save_pt_write"
          /\ UNCHANGED <<w_result, w_save_failed>>
       \/ SaveRaises
    /\ UNCHANGED <<w_done, w_exc, emitted, clr, w_check_view, cancel_phase,
                   late_batches, backend_invoked>>
    /\ WorkerFrame

\* torch.save writes the tensor and closes the file
SavePtWrite ==
    /\ w_pc = "save_pt_write"
    /\ \/ /\ files' = [files EXCEPT ![WKey].pt = Tensor(w_done, w.config)]
          /\ w_pc' = "save_meta_open"
          /\ UNCHANGED <<w_result, w_save_failed>>
       \/ SaveRaises
    /\ UNCHANGED <<w_done, w_exc, emitted, clr, w_check_view, cancel_phase,
                   late_batches, backend_invoked>>
    /\ WorkerFrame

\* open(meta_path, 'w') creates or truncates embeddings_<key>.json
SaveMetaOpen ==
    /\ w_pc = "save_meta_open"
    /\ \/ /\ files' = [files EXCEPT ![WKey].json = PartialJson]
          /\ w_pc' = "save_meta_write"
          /\ UNCHANGED <<w_result, w_save_failed>>
       \/ SaveRaises
    /\ UNCHANGED <<w_done, w_exc, emitted, clr, w_check_view, cancel_phase,
                   late_batches, backend_invoked>>
    /\ WorkerFrame

\* json.dump(meta.to_dict(), f) and close; save_embeddings_cache returns
SaveMetaWrite ==
    /\ w_pc = "save_meta_write"
    /\ \/ /\ files' = [files EXCEPT ![WKey].json =
                    EmbeddingMeta(w.config, Len(w.frames), w_done, 1)]
          /\ w_result' = Returned(Tensor(w_done, w.config), FALSE)
          /\ w_pc' = "returned"
          /\ UNCHANGED w_save_failed
       \/ SaveRaises
    /\ UNCHANGED <<w_done, w_exc, emitted, clr, w_check_view, cancel_phase,
                   late_batches, backend_invoked>>
    /\ WorkerFrame

\* run(): if not self.is_cancelled(): self.finished.emit(...)
WorkerReturned ==
    /\ w_pc = "returned"
    /\ emitted' = IF is_cancelled THEN emitted
                  ELSE Append(emitted, "finished")
    /\ w_pc' = "done"
    /\ UNCHANGED <<files, w_done, w_result, w_exc, clr, w_check_view,
                   cancel_phase, late_batches, w_save_failed, backend_invoked>>
    /\ WorkerFrame

\* run(): except Exception: if not self.is_cancelled(): self.error.emit(...)
WorkerRaised ==
    /\ w_pc = "raised"
    /\ emitted' = IF is_cancelled THEN emitted ELSE Append(emitted, "error")
    /\ w_pc' = "done"
    /\ UNCHANGED <<files, w_done, w_result, w_exc, clr, w_check_view,
                   cancel_phase, late_batches, w_save_failed, backend_invoked>>
    /\ WorkerFrame

\* ---- clear_other_caches(cache_dir, keep_key), one unlink at a time ----

\* the files of the current glob that are not the kept key's
ClearTargets ==
    {k \in Keys \ {clr.keep} :
        IF clr.phase = "pt" THEN files[k].pt.state # "absent"
        ELSE files[k].json.state # "absent"}

\* clear_other_caches is over: its caller goes on (save_embeddings_cache
\* with torch.save, load_data with _load_embeddings_succeeded)
ClearReturns ==
    /\ clr' = NoClear
    /\ IF clr.owner = "save"
       THEN /\ w_pc' = "save_pt_open"
            /\ UNCHANGED <<gui_pc, gui_outcome, installed>>
       ELSE /\ gui_pc' = "idle"
            /\ gui_outcome' = "loaded"
            /\ installed' = InstalledFromCache(files[clr.keep], frames_dir)
            /\ UNCHANGED w_pc

ClearFrame ==
    /\ UNCHANGED <<frames_dir, runs, w, w_done, is_cancelled, w_result, w_exc,
                   emitted, handled, progress_open, files_at_start,
                   w_check_view, cancel_phase, late_batches, w_save_failed,
                   backend_invoked>>
    /\ UNCHANGED Others

\* pt_file.unlink() / json_file.unlink() of one other entry
ClearUnlink ==
    /\ clr.owner # "none"
    /\ \E k \in ClearTargets :
         files' = IF clr.phase = "pt"
                  THEN [files EXCEPT ![k].pt = NoPt]
                  ELSE [files EXCEPT ![k].json = NoJson]
    /\ UNCHANGED <<clr, w_pc, gui_pc, gui_outcome, installed>>
    /\ ClearFrame

\* the *.pt glob is exhausted: the *.json loop starts
ClearNextGlob ==
    /\ clr.owner # "none"
    /\ clr.phase = "pt"
    /\ ClearTargets = {}
    /\ clr' = [clr EXCEPT !.phase = "json"]
    /\ UNCHANGED <<files, w_pc, gui_pc, gui_outcome, installed>>
    /\ ClearFrame

\* the *.json glob is exhausted: clear_other_caches returns
ClearDone ==
    /\ clr.owner # "none"
    /\ clr.phase = "json"
    /\ ClearTargets = {}
    /\ ClearReturns
    /\ UNCHANGED files
    /\ ClearFrame

\* an unlink raises: the except clause prints a warning and returns
ClearRaises ==
    /\ clr.owner # "none"
    /\ ClearTargets # {}
    /\ ClearReturns
    /\ UNCHANGED files
    /\ ClearFrame

WorkerStep ==
    \/ WorkerCheckCache
    \/ WorkerLoadModel
    \/ WorkerBatchStart
    \/ WorkerBatchEnd
    \/ WorkerProgress
    \/ WorkerLoopExit
    \/ SavePtOpen
    \/ SavePtWrite
    \/ SaveMetaOpen
    \/ SaveMetaWrite
    \/ WorkerReturned
    \/ WorkerRaised

ClearStep == ClearUnlink \/ ClearNextGlob \/ ClearDone \/ ClearRaises

\* the session without load_data: the user changes the frames, starts and
\* cancels workers; the GUI thread handles the worker's signals
NextStore ==
    \/ ChangeFrames
    \/ StartWorker
    \/ Cancel
    \/ GuiOnFinished
    \/ GuiOnError
    \/ WorkerStep
    \/ ClearStep

SpecStore == InitStore /\ [][NextStore]_vars

\* the worker thread is scheduled: a step it can take is eventually taken
SpecStoreFair ==
    SpecStore /\ WF_vars(WorkerStep) /\ WF_vars(ClearStep)

\* the same session with the directory being opened (load_data) as well
NextSession == NextStore \/ LoadData

SpecSession == InitStore /\ [][NextSession]_vars

\* an entry of key k the directory can hold before the session: one this
\* code saved, one whose sidecar carries another format version, one whose
\* sidecar records a configuration other than the key's
FoundEntries(k) ==
    LET n == Cardinality(k.names)
    IN  { [pt |-> Tensor(n, k.config),
           json |-> EmbeddingMeta(k.config, n, n, 1)],
          [pt |-> Tensor(n, k.config),
           json |-> EmbeddingMeta(k.config, n, n, 2)],
          [pt |-> Tensor(n, OtherConfig),
           json |-> EmbeddingMeta(OtherConfig, n, n, 1)] }

NoEntry == [pt |-> NoPt, json |-> NoJson]

FoundDirs ==
    {dir \in [Keys -> UNION {FoundEntries(k) : k \in Keys} \cup {NoEntry}] :
        /\ \A k \in Keys : dir[k] \in FoundEntries(k) \cup {NoEntry}
        /\ Cardinality({k \in Keys : dir[k] # NoEntry}) <= MaxFound}

\* the session opened on a cache directory that is not empty
InitStoreEnv ==
    /\ SelIdle /\ FpsIdle /\ DataIdle /\ AuxIdle
    /\ \E dir \in FoundDirs : StoreOpened(dir)

\* workers started and cancelled over the frames the directory holds
NextStoreEnv ==
    \/ StartWorker
    \/ Cancel
    \/ GuiOnFinished
    \/ GuiOnError
    \/ WorkerStep
    \/ ClearStep

SpecStoreEnv == InitStoreEnv /\ [][NextStoreEnv]_vars

----------------------------------------------------------------------------
(* Properties of the embedding store and the worker *)

\* save_embeddings_cache of the current run has begun (and maybe ended)
SaveBegun ==
    \/ w_pc \in {"save_clear", "save_pt_open", "save_pt_write",
                 "save_meta_open", "save_meta_write"}
    \/ w_pc \in {"returned", "done"} /\ w_result.state = "returned"
          /\ ~w_result.from_cache

\* both files of the run's key were written by this save
NewEntryWritten ==
    /\ w_pc \in {"returned", "done"}
    /\ w_result.state = "returned" /\ ~w_result.from_cache
    /\ ~w_save_failed

\* a reader of the directory sees a sidecar only beside a complete array
Consistent(entry) ==
    entry.json.state # "absent" => entry.pt.state = "complete"

(* C3: at every step of save_embeddings_cache for key K, a failed save     *)
(* included, a reader never sees embeddings_<K>.json without a completely  *)
(* written embeddings_<K>.pt (the entry being consistent when the save     *)
(* began).                                                                 *)
C3_NoSidecarWithoutArray ==
    (SaveBegun /\ Consistent(files_at_start[WKey]))
        => Consistent(files[WKey])

\* where C3 does hold: the key had no file when the save began
C3_FreshKeyNoSidecarWithoutArray ==
    (SaveBegun /\ files_at_start[WKey] = [pt |-> NoPt, json |-> NoJson])
        => Consistent(files[WKey])

(* C4: with clear_others, the other entries are deleted only after the new *)
(* array and its metadata have been written; when writing the new entry    *)
(* fails every previously existing entry is still present.                 *)
C4_OthersDeletedOnlyAfterSave ==
    (SaveBegun /\ w.clear_others) =>
        \A k \in Keys \ {WKey} :
            files[k] # files_at_start[k] => NewEntryWritten

(* C5: a cached array is trusted only after its metadata was checked       *)
(* against the live inputs: config equal to the live config, frame_count   *)
(* and embedding_shape equal to the number of live frames.                 *)
C5_TrustedOnlyAfterChecks ==
    /\ (w_result.state = "returned" /\ w_result.from_cache) =>
          /\ EmbeddingConfigEq(w_check_view.entry.json.config, w.config)
          /\ w_check_view.entry.json.frame_count = Len(w.frames)
          /\ w_check_view.entry.json.shape_rows = Len(w.frames)
    /\ installed.source = "cache" =>
          /\ installed.meta.frame_count = installed.frames
          /\ installed.meta.shape_rows = installed.frames

\* the cache-miss conditions, on the entry of the computed key as the
\* lookup found it
CacheMiss(entry, config) ==
    \/ entry.json.state = "absent"
    \/ entry.json.state = "partial"
    \/ entry.json.version # 1
    \/ entry.json.config # config
    \/ entry.pt.state = "absent"
    \/ entry.pt.state = "partial"

(* C6: with force=False each cache-miss condition (sidecar missing,        *)
(* unparseable or of an unsupported version, sidecar config different from *)
(* the live config, array missing or undecodable) makes                    *)
(* load_or_compute_embeddings go to the backend and return from_cache =    *)
(* False, the lookup itself raising nothing; from_cache = True is returned *)
(* only when none of the conditions holds.                                 *)
C6_CacheMissRecomputes ==
    w_check_view.checked =>
        LET miss == CacheMiss(w_check_view.entry, w.config)
        IN  /\ miss =>
                  /\ w_pc \notin {"start", "load_model"} => backend_invoked
                  /\ w_exc # "none" => backend_invoked
                  /\ w_result.state = "returned" => ~w_result.from_cache
            /\ (w_result.state = "returned" /\ w_result.from_cache) => ~miss
            /\ ~miss => ~backend_invoked

\* a run returned a recomputed array after its lookup met a decodable array
\* beside a sidecar of another configuration
C6_Witness ==
    /\ w_check_view.checked
    /\ w_check_view.entry.json.state = "valid"
    /\ w_check_view.entry.json.version = 1
    /\ w_check_view.entry.json.config = OtherConfig
    /\ w_check_view.entry.pt.state = "complete"
    /\ w_pc = "done"
    /\ w_result.state = "returned"
    /\ ~w_result.from_cache
    /\ emitted = <<"finished">>

\* the same beside a sidecar of version 2
C6_VersionMismatchRecomputed ==
    /\ w_check_view.checked
    /\ w_check_view.entry.json.state = "valid"
    /\ w_check_view.entry.json.version = 2
    /\ w_check_view.entry.pt.state = "complete"
    /\ w_pc = "done"
    /\ w_result.state = "returned"
    /\ ~w_result.from_cache

\* a sidecar beside a truncated array, left by a forced re-save that failed
C6_UndecodableArrayRecomputed ==
    /\ w_check_view.checked
    /\ w_check_view.entry.json.state = "valid"
    /\ w_check_view.entry.json.version = 1
    /\ w_check_view.entry.pt.state = "partial"
    /\ w_pc = "done"
    /\ w_result.state = "returned"
    /\ ~w_result.from_cache

(* C8: every run of the worker delivers exactly one terminal result        *)
(* (success, cancelled or failed) to its caller; a cancellation requested  *)
(* after the computation completed is signalled too.                       *)
C8_ExactlyOneTerminalResult ==
    w_pc = "done" => Len(emitted) = 1

\* the case C8 singles out: load_or_compute_embeddings returned, cancel()
\* came before run() tested the flag, and nothing was emitted
C8_CompletedRunDropped ==
    /\ w_pc = "done"
    /\ cancel_phase = "completed"
    /\ w_result.state = "returned"
    /\ emitted = << >>

(* C9: cancellation is checked once per batch boundary: after cancel() the *)
(* batch in flight completes (it ends only by appending its rows or by a   *)
(* backend failure), no batch is started after the first boundary that     *)
(* follows the request, and the run terminates.                            *)
C9_CancelStopsAtBoundary ==
    /\ [](late_batches = 0)
    /\ [][(w_pc = "batch" /\ w_pc' # "batch") =>
            \/ w_pc' = "progress" /\ w_done' > w_done
            \/ w_pc' = "raised" /\ w_exc' = "backend"]_vars
    /\ (cancel_phase = "requested") ~> (w_pc = "done")

\* a run cancelled during its first batch of two: the batch completed, the
\* boundary raised, the third frame was never embedded
C9_Witness ==
    /\ w_pc = "done"
    /\ cancel_phase = "boundary"
    /\ w_exc = "interrupted"
    /\ Len(w.frames) = 3
    /\ w_done = 2

(* C10: no partial result is persisted: every array in the cache directory *)
(* has one row per frame of its key's frame set, and a run whose           *)
(* cancellation is observed at a batch boundary leaves every cache file as *)
(* it was when the run started (nothing created, overwritten or deleted).  *)
C10_NoPartialResultPersisted ==
    /\ \A k \in Keys :
          files[k].pt.state = "complete" =>
              files[k].pt.rows = Cardinality(k.names)
    /\ cancel_phase = "boundary" => files = files_at_start

\* a clear_others run over a directory holding another entry, cancelled at
\* its first boundary with a frame still to embed
C10_Witness ==
    /\ w_pc = "done"
    /\ cancel_phase = "boundary"
    /\ w.clear_others
    /\ w_done < Len(w.frames)
    /\ \E k \in Keys \ {WKey} : files[k].pt.state = "complete"

----------------------------------------------------------------------------
(* The cache key: the bytes compute_cache_key feeds to the hasher *)

\* most frames in a list given to compute_cache_key
MaxNames == 2

\* the zero byte b'\x00' that follows every field and every filename
NUL == "NUL"

NoSep == << >>

Sep == <<NUL>>

\* code points of the characters that occur
CharOrd(c) ==
    CASE c = "," -> 44 [] c = "." -> 46
      [] c = "0" -> 48 [] c = "1" -> 49 [] c = "2" -> 50 [] c = "3" -> 51
      [] c = "4" -> 52 [] c = "5" -> 53 [] c = "6" -> 54 [] c = "7" -> 55
      [] c = "8" -> 56 [] c = "9" -> 57
      [] c = "G" -> 71 [] c = "J" -> 74 [] c = "P" -> 80
      [] c = "_" -> 95
      [] c = "a" -> 97 [] c = "b" -> 98 [] c = "c" -> 99 [] c = "d" -> 100
      [] c = "g" -> 103 [] c = "j" -> 106 [] c = "m" -> 109
      [] c = "n" -> 110 [] c = "p" -> 112 [] c = "t" -> 116
      [] c = "x" -> 120
      [] OTHER -> 127

\* Python's str < str
RECURSIVE StrLess(_, _)
StrLess(a, b) ==
    IF b = << >> THEN FALSE
    ELSE IF a = << >> THEN TRUE
    ELSE IF Head(a) = Head(b) THEN StrLess(Tail(a), Tail(b))
    ELSE CharOrd(Head(a)) < CharOrd(Head(b))

DigitChar(d) ==
    CASE d = 0 -> "0" [] d = 1 -> "1" [] d = 2 -> "2" [] d = 3 -> "3"
      [] d = 4 -> "4" [] d = 5 -> "5" [] d = 6 -> "6" [] d = 7 -> "7"
      [] d = 8 -> "8" [] OTHER -> "9"

\* str(int) of a non-negative integer
RECURSIVE StrInt(_)
StrInt(n) ==
    IF n < 10 THEN <<DigitChar(n)>>
    ELSE StrInt(n \div 10) \o <<DigitChar(n % 10)>>

\* str(bool)
StrBool(b) ==
    IF b THEN <<"T", "r", "u", "e">> ELSE <<"F", "a", "l", "s", "e">>

\* str(float) of a fill component given in thousandths (0.485 is 485):
\* the shortest decimal, at least one digit after the point
StrFloat(t) ==
    LET f  == t % 1000
        d1 == f \div 100
        d2 == (f \div 10) % 10
        d3 == f % 10
        frac == IF d3 # 0 THEN <<DigitChar(d1), DigitChar(d2), DigitChar(d3)>>
                ELSE IF d2 # 0 THEN <<DigitChar(d1), DigitChar(d2)>>
                ELSE <<DigitChar(d1)>>
    IN  StrInt(t \div 1000) \o <<".">> \o frac

\* ','.join(str(c) for c in transform.fill)
RECURSIVE JoinFill(_)
JoinFill(fill) ==
    IF fill = << >> THEN << >>
    ELSE IF Len(fill) = 1 THEN StrFloat(fill[1])
    ELSE StrFloat(fill[1]) \o <<",">> \o JoinFill(Tail(fill))

\* f"{mode.value}|{alignment.value}|{fill...}"
TransformRepr(config) ==
    config.mode \o <<"|">> \o config.alignment \o <<"|">>
        \o JoinFill(config.fill)

\* sorted(names): insertion into an ascending list
RECURSIVE InsertName(_, _)
InsertName(x, srt) ==
    IF srt = << >> THEN <<x>>
    ELSE IF StrLess(x, Head(srt)) THEN <<x>> \o srt
    ELSE <<Head(srt)>> \o InsertName(x, Tail(srt))

NamesInListOrder(names) == names

RECURSIVE SortedNames(_)
SortedNames(names) ==
    IF names = << >> THEN << >>
    ELSE InsertName(Head(names), SortedNames(Tail(names)))

\* path.name of every path of the list
PathNames(frames) == [i \in 1 .. Len(frames) |-> frames[i].name]

\* each name followed by the zero byte
RECURSIVE NamesBytes(_)
NamesBytes(names) ==
    IF names = << >> THEN << >>
    ELSE Head(names) \o Sep \o NamesBytes(Tail(names))

\* frame_selection_core.compute_cache_key, up to the hexdigest
CacheKeyBytes(config, frames) ==
    config.model \o Sep
        \o StrInt(config.model_input_size) \o Sep
        \o StrBool(config.normalize) \o Sep
        \o TransformRepr(config) \o Sep
        \o NamesBytes(SortedNames(PathNames(frames)))

\* select_frames_vit.compute_cache_key, up to the hexdigest
CliCacheKeyBytes(model_name, frame_filenames, normalize) ==
    model_name \o Sep
        \o StrBool(normalize) \o Sep
        \o NamesBytes(SortedNames(frame_filenames))

\* the values the fields of the config take: two models, one a prefix of
\* the other and ending in a digit; two input sizes; both flags; two modes,
\* two alignments; the default fill and one with a component changed
KeyModels == {<<"m">>, <<"m", "2">>}

KeySizes == {24, 224}

KeyModes == {<<"p", "a", "d">>, <<"c", "r", "o", "p">>}

KeyAlignments == {<<"c", "e", "n", "t", "e", "r">>, <<"t", "o", "p">>}

KeyFills == {<<485, 456, 406>>, <<485, 456, 0>>}

KeyConfigs ==
    [model : KeyModels, model_input_size : KeySizes, normalize : BOOLEAN,
     mode : KeyModes, alignment : KeyAlignments, fill : KeyFills]

\* frame filenames (one the concatenation of the two others) and the
\* directories a path can lie in
KeyNames == {<<"a">>, <<"b">>, <<"a", "b">>}

KeyDirs == {"d1", "d2"}

KeyPaths == [dir : KeyDirs, name : KeyNames]

\* lists of the paths of one directory, in any order: the filenames are
\* pairwise different
FrameLists ==
    {f \in UNION {[1 .. n -> KeyPaths] : n \in 0 .. MaxNames} :
        \A i, j \in 1 .. Len(f) :
            /\ f[i].dir = f[j].dir
            /\ i # j => f[i].name # f[j].name}

CallComputeCacheKey ==
    /\ key_pc = "idle"
    /\ \E c \in KeyConfigs, f \in FrameLists :
         /\ key_config' = c
         /\ key_frames' = f
         /\ key_bytes' = CacheKeyBytes(c, f)
         /\ cli_bytes' = CliCacheKeyBytes(c.model, PathNames(f), c.normalize)
    /\ key_pc' = "keyed"
    /\ UNCHANGED <<key_config2, key_frames2, key_bytes2, cli_bytes2>>
    /\ UNCHANGED <<selVars, fpsVars, dataVars, storeVars, rtVars, catVars,
                   calVars, moreVars>>

\* the key is computed again, for another config or for another list
CallComputeCacheKeyAgain ==
    /\ key_pc = "keyed"
    /\ \E c \in KeyConfigs, f \in FrameLists :
         /\ c = key_config \/ f = key_frames
         /\ key_config2' = c
         /\ key_frames2' = f
         /\ key_bytes2' = CacheKeyBytes(c, f)
         /\ cli_bytes2' = CliCacheKeyBytes(c.model, PathNames(f), c.normalize)
    /\ key_pc' = "compared"
    /\ UNCHANGED <<key_config, key_frames, key_bytes, cli_bytes>>
    /\ UNCHANGED <<selVars, fpsVars, dataVars, storeVars, rtVars, catVars,
                   calVars, moreVars>>

KeyReturn ==
    /\ key_pc = "compared"
    /\ key_pc' = "idle"
    /\ key_config' = NoKeyConfig
    /\ key_frames' = << >>
    /\ key_bytes' = << >>
    /\ cli_bytes' = << >>
    /\ key_config2' = NoKeyConfig
    /\ key_frames2' = << >>
    /\ key_bytes2' = << >>
    /\ cli_bytes2' = << >>
    /\ UNCHANGED <<selVars, fpsVars, dataVars, storeVars, rtVars, catVars,
                   calVars, moreVars>>

InitKey == SelIdle /\ FpsIdle /\ DataIdle /\ StoreIdle /\ AuxIdle

NextKey ==
    \/ CallComputeCacheKey
    \/ CallComputeCacheKeyAgain
    \/ KeyReturn

SpecKey == InitKey /\ [][NextKey]_vars

SameNameSet == Range(PathNames(key_frames)) = Range(PathNames(key_frames2))

(* C11: compute_cache_key depends only on the config fields and the set of *)
(* frame filenames: two calls with equal configs and lists holding the     *)
(* same filenames (in any order, in any directories, or the same list      *)
(* again) feed the same bytes to the hasher.                               *)
C11_KeyOfConfigAndNameSet ==
    (key_pc = "compared" /\ key_config2 = key_config /\ SameNameSet)
        => key_bytes2 = key_bytes

\* two filenames listed in the opposite order and from other directories
C11_Witness ==
    /\ key_pc = "compared"
    /\ key_config2 = key_config
    /\ Len(key_frames) = 2 /\ Len(key_frames2) = 2
    /\ key_frames2[1].name = key_frames[2].name
    /\ key_frames2[2].name = key_frames[1].name
    /\ key_frames2[1].dir # key_frames[2].dir
    /\ key_frames2[2].dir # key_frames[1].dir
    /\ key_bytes2 = key_bytes

\* the hasher's input cut at the zero bytes
RECURSIVE SplitNul(_, _)
SplitNul(bytes, chunk) ==
    IF bytes = << >> THEN IF chunk = << >> THEN << >> ELSE <<chunk>>
    ELSE IF Head(bytes) = NUL THEN <<chunk>> \o SplitNul(Tail(bytes), << >>)
    ELSE SplitNul(Tail(bytes), Append(chunk, Head(bytes)))

(* C12: no two distinct (config, filename set) inputs feed the same bytes  *)
(* to the hasher: the bytes split at the zero bytes into exactly the four  *)
(* config fields and the sorted filenames, and two calls that differ in a  *)
(* config field (model, input size, normalize, mode, alignment, a fill     *)
(* component) or in the filename set (one added, removed or renamed) feed  *)
(* different bytes; the same for select_frames_vit's key over model,       *)
(* normalize and filenames.                                                *)
C12_KeyBytesInjective ==
    /\ key_pc # "idle" =>
          SplitNul(key_bytes, << >>) =
              <<key_config.model, StrInt(key_config.model_input_size),
                StrBool(key_config.normalize), TransformRepr(key_config)>>
                  \o SortedNames(PathNames(key_frames))
    /\ (key_pc = "compared" /\ key_bytes2 = key_bytes) =>
          key_config2 = key_config /\ SameNameSet
    /\ (key_pc = "compared" /\ cli_bytes2 = cli_bytes) =>
          /\ key_config2.model = key_config.model
          /\ key_config2.normalize = key_config.normalize
          /\ SameNameSet

\* two configs that differ in one fill component only, over the same frames
C12_Witness ==
    /\ key_pc = "compared"
    /\ key_frames2 = key_frames
    /\ Len(key_frames) = 2
    /\ key_config2.fill # key_config.fill
    /\ [key_config2 EXCEPT !.fill = key_config.fill] = key_config
    /\ key_bytes2 # key_bytes

----------------------------------------------------------------------------
(* Round trip of one cache entry through its two files *)

IMAGE_SIZE == 224

\* d.get(k, default)
DictGet(d, k, default) == IF k \in DOMAIN d THEN d[k] ELSE default

\* TransformConfig.to_dict inside EmbeddingConfig.to_dict
ConfigToDict(config) ==
    [model |-> config.model,
     model_input_size |-> config.model_input_size,
     normalize |-> config.normalize,
     transform |-> [mode |-> config.mode, alignment |-> config.alignment,
                    fill |-> config.fill]]

\* the sidecar select_frames_vit.save_embeddings_cache writes
MetaToDictCli(config, frame_count, shape) ==
    [cache_version |-> 1, model |-> config.model,
     normalize |-> config.normalize, frame_count |-> frame_count,
     embedding_shape |-> shape]

\* EmbeddingMeta(config, len(frames), embeddings.shape, version=1).to_dict()
MetaToDict(config, frame_count, shape) ==
    [version |-> 1, config |-> ConfigToDict(config),
     frame_count |-> frame_count, embedding_shape |-> shape]

\* TransformMode(value) / Alignment(value) raise ValueError on other values
ModeValues ==
    {<<"c", "r", "o", "p">>, <<"p", "a", "d">>, <<"s", "c", "a", "l", "e">>}

AlignmentValues ==
    {<<"c", "e", "n", "t", "e", "r">>, <<"t", "o", "p">>,
     <<"b", "o", "t", "t", "o", "m">>, <<"l", "e", "f", "t">>,
     <<"r", "i", "g", "h", "t">>}

\* TransformConfig.from_dict: None stands for the exception it raises
TransformFromDict(d) ==
    IF ~({"mode", "alignment", "fill"} \subseteq DOMAIN d) THEN None
    ELSE IF d.mode \notin ModeValues \/ d.alignment \notin AlignmentValues
    THEN None
    ELSE [state |-> "ok", mode |-> d.mode, alignment |-> d.alignment,
          fill |-> d.fill]

\* EmbeddingConfig.from_dict
ConfigFromDict(d) ==
    IF ~({"model", "normalize", "transform"} \subseteq DOMAIN d) THEN None
    ELSE LET t == TransformFromDict(d.transform)
         IN  IF t.state # "ok" THEN None
             ELSE [state |-> "ok",
                   config |->
                     [model |-> d.model,
                      model_input_size |->
                          DictGet(d, "model_input_size", IMAGE_SIZE),
                      normalize |-> d.normalize,
                      mode |-> t.mode, alignment |-> t.alignment,
                      fill |-> t.fill]]

\* load_cached_embeddings_meta on the sidecar's content
LoadMeta(json) ==
    IF json.state = "absent" THEN None
    ELSE LET data == json.data
         IN  IF DictGet(data, "version", 0) # 1 THEN None
             ELSE IF ~({"config", "frame_count", "embedding_shape"}
                          \subseteq DOMAIN data) THEN None
             ELSE LET c == ConfigFromDict(data.config)
                  IN  IF c.state # "ok" THEN None
                      ELSE [state |-> "meta", config |-> c.config,
                            frame_count |-> data.frame_count,
                            embedding_shape |-> data.embedding_shape,
                            version |-> data.version]

\* load_cached_embeddings_data on the array file's content
LoadArray(pt) ==
    IF pt.state = "absent" THEN None ELSE pt.tensor

\* the arrays handed to the save: one row per frame
RtArrays(n) ==
    {[state |-> "tensor", shape |-> <<n, p, 1>>, content |-> x] :
        p \in Patches, x \in {"A", "B"}}

\* save_embeddings_cache, no write raising
RtSave ==
    /\ rt_pc = "idle"
    /\ \E c \in KeyConfigs, f \in FrameLists :
         \E a \in RtArrays(Len(f)) :
           /\ rt_config' = c
           /\ rt_frames' = f
           /\ rt_array' = a
           /\ rt_key' = CacheKeyBytes(c, f)
           /\ rt_pt' = [state |-> "file", tensor |-> a]
           /\ rt_json' = [state |-> "file",
                          data |-> MetaToDict(c, Len(f), a.shape)]
    /\ rt_pc' = "saved"
    /\ UNCHANGED <<rt_meta, rt_loaded>>
    /\ UNCHANGED <<selVars, fpsVars, dataVars, storeVars, keyVars, catVars,
                   calVars, moreVars>>

\* the entry under compute_cache_key(config, frames) is loaded
RtLoad ==
    /\ rt_pc = "saved"
    /\ LET found == CacheKeyBytes(rt_config, rt_frames) = rt_key
       IN  /\ rt_meta' = LoadMeta(IF found THEN rt_json ELSE Absent)
           /\ rt_loaded' = LoadArray(IF found THEN rt_pt ELSE Absent)
    /\ rt_pc' = "loaded"
    /\ UNCHANGED <<rt_config, rt_frames, rt_array, rt_key, rt_pt, rt_json>>
    /\ UNCHANGED <<selVars, fpsVars, dataVars, storeVars, keyVars, catVars,
                   calVars, moreVars>>

RtReturn ==
    /\ rt_pc = "loaded"
    /\ rt_pc' = "idle"
    /\ rt_config' = NoKeyConfig
    /\ rt_frames' = << >>
    /\ rt_array' = None
    /\ rt_key' = << >>
    /\ rt_pt' = Absent
    /\ rt_json' = Absent
    /\ rt_meta' = None
    /\ rt_loaded' = None
    /\ UNCHANGED <<selVars, fpsVars, dataVars, storeVars, keyVars, catVars,
                   calVars, moreVars>>

InitRoundTrip == SelIdle /\ FpsIdle /\ DataIdle /\ StoreIdle /\ AuxIdle

NextRoundTrip == RtSave \/ RtLoad \/ RtReturn

SpecRoundTrip == InitRoundTrip /\ [][NextRoundTrip]_vars

----------------------------------------------------------------------------
(* A directory opened by load_data, whatever its cache directory holds *)

\* what the two files of key k can be when the directory is opened: an
\* entry FoundEntries lists, a sidecar whose array is missing or truncated,
\* or an array beside a sidecar that does not parse
DirEntries(k) ==
    LET n == Cardinality(k.names)
    IN  FoundEntries(k) \cup
        { [pt |-> NoPt, json |-> EmbeddingMeta(k.config, n, n, 1)],
          [pt |-> PartialPt, json |-> EmbeddingMeta(k.config, n, n, 1)],
          [pt |-> Tensor(n, k.config), json |-> PartialJson] }

OpenDirs ==
    {dir \in [Keys -> UNION {DirEntries(k) : k \in Keys} \cup {NoEntry}] :
        \A k \in Keys : dir[k] \in DirEntries(k) \cup {NoEntry}}

InitOpenDir ==
    /\ SelIdle /\ FpsIdle /\ DataIdle /\ AuxIdle
    /\ \E dir \in OpenDirs : StoreOpened(dir)

\* frames come and go, the directory is opened again, caches are cleared
NextOpenDir ==
    \/ ChangeFrames
    \/ LoadData
    \/ ClearStep

SpecOpenDir == InitOpenDir /\ [][NextOpenDir]_vars

----------------------------------------------------------------------------
(* Properties of cache discovery and of load_data *)

\* the entries with a valid version-1 sidecar whose array file is absent or
\* does not decode
BrokenEntries(dir) ==
    {k \in Keys : /\ dir[k].json.state = "valid"
                  /\ dir[k].json.version = 1
                  /\ dir[k].pt.state \in {"absent", "partial"}}

(* C14: for an entry with a valid version-1 sidecar whose array file is    *)
(* absent or undecodable, load_cached_embeddings_data returns None         *)
(* (raising nothing) and find_existing_cache_in_dir still lists the entry; *)
(* load_data then ends in the broken-cache outcome when that entry is the  *)
(* one found or chosen, never in the outcome of a directory holding no     *)
(* entry, and it ends in the broken-cache outcome in no other case.        *)
C14_BrokenCacheOutcome ==
    [][(LoadData /\ frames_dir >= 2 /\ gui_pc' = "idle") =>
          LET broken == BrokenEntries(files)
              listed == find_existing_cache_in_dir(files)
          IN  /\ \A k \in broken :
                    /\ load_cached_embeddings_data(files[k].pt) = NoPt
                    /\ k \in listed
              /\ broken # {} => gui_outcome' # "not_found"
              /\ (broken # {} /\ listed \subseteq broken) =>
                    gui_outcome' \in {"broken", "selection_cancelled"}
              /\ (broken # {} /\ Cardinality(listed) = 1) =>
                    gui_outcome' = "broken"
              /\ gui_outcome' = "broken" => broken # {}
              /\ gui_outcome' = "not_found" => listed = {}]_vars

\* load_data met a single entry whose array file was missing
C14_Witness ==
    /\ gui_outcome = "broken"
    /\ gui_pc = "idle"
    /\ WorkerIdle
    /\ Cardinality(find_existing_cache_in_dir(files)) = 1
    /\ \E k \in BrokenEntries(files) : files[k].pt.state = "absent"

(* C15: find_existing_cache_in_dir raises nothing and returns exactly the  *)
(* sidecars of the directory that parse and carry version 1: a sidecar     *)
(* that does not parse or has another version is left out and keeps no     *)
(* valid sidecar from being listed; load_data reports that no cache was    *)
(* found exactly when there is no such sidecar.                            *)
C15_ListsExactlyValidSidecars ==
    /\ find_existing_cache_in_dir(files) =
          {k \in Keys : /\ files[k].json.state = "valid"
                        /\ files[k].json.version = 1}
    /\ (gui_outcome = "not_found" /\ gui_pc = "idle") =>
          \A k \in Keys : ~(/\ files[k].json.state = "valid"
                            /\ files[k].json.version = 1)

\* the one valid entry was found and installed though every other sidecar
\* of the directory does not parse or has version 2
C15_Witness ==
    /\ gui_outcome = "loaded"
    /\ installed.source = "cache"
    /\ \E k \in Keys :
         /\ files[k].json.state = "valid" /\ files[k].json.version = 1
         /\ \A o \in Keys \ {k} :
              \/ files[o].json.state = "partial"
              \/ files[o].json.state = "valid" /\ files[o].json.version = 2

(* C16: a backend failure (load_model or any batch raising) is never       *)
(* skipped: load_or_compute_embeddings ends by raising it and not by       *)
(* returning, no cache file is written or deleted, and the run emits error *)
(* unless it was cancelled; whenever load_or_compute_embeddings returns an *)
(* array, computed or cached, it has one row per frame of the catalog, the *)
(* rows appended batch by batch in catalog order.                          *)
C16_BackendFailurePropagates ==
    /\ w_exc = "backend" =>
          /\ w_pc \in {"raised", "done"}
          /\ w_result.state # "returned"
          /\ files = files_at_start
          /\ w_pc = "done" =>
                (emitted = <<"error">> \/ cancel_phase # "none")
    /\ w_result.state = "returned" =>
          /\ w_result.tensor.rows = Len(w.frames)
          /\ ~w_result.from_cache => w_done = Len(w.frames)

\* the second batch of a clear_others run over another entry raised
C16_Witness ==
    /\ w_pc = "done"
    /\ w_exc = "backend"
    /\ Len(w.frames) = 3
    /\ w_done = 2
    /\ w.clear_others
    /\ emitted = <<"error">>
    /\ \E k \in Keys \ {WKey} : files[k].pt.state = "complete"

----------------------------------------------------------------------------
(* The frame catalog: collect_frames of the core and of select_frames_vit *)

\* most files the input directory holds
MaxFiles == 3

\* filenames: 10_a.jpg, 9_b.jpg, 9_c.JPG, 9.jpg, x.png, 2_d.txt
FileNames ==
    { <<"1", "0", "_", "a", ".", "j", "p", "g">>,
      <<"9", "_", "b", ".", "j", "p", "g">>,
      <<"9", "_", "c", ".", "J", "P", "G">>,
      <<"9", ".", "j", "p", "g">>,
      <<"x", ".", "p", "n", "g">>,
      <<"2", "_", "d", ".", "t", "x", "t">> }

\* iterdir(): the files of a directory, each once, in any order
Listings ==
    {l \in UNION {[1 .. n -> FileNames] : n \in 0 .. MaxFiles} :
        \A i, j \in 1 .. Len(l) : i # j => l[i] # l[j]}

SUPPORTED_EXTENSIONS ==
    {<<".", "j", "p", "g">>, <<".", "j", "p", "e", "g">>,
     <<".", "p", "n", "g">>}

\* str.lower() of one character
LowerChar(c) ==
    CASE c = "G" -> "g" [] c = "J" -> "j" [] c = "P" -> "p" [] OTHER -> c

Lower(str) == [i \in 1 .. Len(str) |-> LowerChar(str[i])]

\* Path.suffix: from the last dot on, empty when there is no dot or the
\* only dot leads the name
Suffix(name) ==
    LET dots == {i \in 1 .. Len(name) : name[i] = "."}
    IN  IF dots = {} \/ MaxOf(dots) = 1 THEN << >>
        ELSE SubSeq(name, MaxOf(dots), Len(name))

Supported(name) == Lower(Suffix(name)) \in SUPPORTED_EXTENSIONS

IsDigit(c) == CharOrd(c) >= 48 /\ CharOrd(c) <= 57

\* int(digits)
RECURSIVE IntOf(_)
IntOf(digits) ==
    IF digits = << >> THEN 0
    ELSE 10 * IntOf(SubSeq(digits, 1, Len(digits) - 1))
            + (CharOrd(digits[Len(digits)]) - 48)

\* parse_frame_number: int(filename.split('_', 1)[0]), -1 standing for None
parse_frame_number(filename) ==
    LET unders == {i \in 1 .. Len(filename) : filename[i] = "_"}
        prefix == IF unders = {} THEN filename
                  ELSE SubSeq(filename, 1, MinOf(unders) - 1)
    IN  IF prefix # << >> /\ \A i \in 1 .. Len(prefix) : IsDigit(prefix[i])
        THEN IntOf(prefix)
        ELSE -1

\* frame_selection_core.collect_frames
CoreCollectFrames(listing) ==
    SortedNames(SelectSeq(listing, Supported))

\* list.sort(key=frame number): stable, an element stays before the later
\* elements of the same number
RECURSIVE InsertByNumber(_, _)
InsertByNumber(x, srt) ==
    IF srt = << >> THEN <<x>>
    ELSE IF parse_frame_number(x) <= parse_frame_number(Head(srt))
    THEN <<x>> \o srt
    ELSE <<Head(srt)>> \o InsertByNumber(x, Tail(srt))

RECURSIVE SortedByNumber(_)
SortedByNumber(names) ==
    IF names = << >> THEN << >>
    ELSE InsertByNumber(Head(names), SortedByNumber(Tail(names)))

CliKeeps(name) == Supported(name) /\ parse_frame_number(name) # -1

\* select_frames_vit.collect_frames (the filenames of its triples)
CliCollectFrames(listing) ==
    SortedByNumber(SelectSeq(listing, CliKeeps))

CallCollectFrames ==
    /\ cat_pc = "idle"
    /\ \E l \in Listings :
         /\ cat_listing' = l
         /\ cat_core' = CoreCollectFrames(l)
         /\ cat_cli' = CliCollectFrames(l)
    /\ cat_pc' = "done"
    /\ UNCHANGED <<selVars, fpsVars, dataVars, storeVars, keyVars, rtVars,
                   calVars, moreVars>>

\* select_frames_vit.main after collect_frames: SystemExit(1) on fewer than
\* 2 frames, else on to the cache and the embeddings
CliMain ==
    /\ cat_pc = "done"
    /\ cat_pc' = IF TooFew(Len(cat_cli)) THEN "exit_1" ELSE "embedding"
    /\ UNCHANGED <<cat_listing, cat_core, cat_cli>>
    /\ UNCHANGED <<selVars, fpsVars, dataVars, storeVars, keyVars, rtVars,
                   calVars, moreVars>>

CatReturn ==
    /\ cat_pc \in {"exit_1", "embedding"}
    /\ cat_pc' = "idle"
    /\ cat_listing' = << >>
    /\ cat_core' = << >>
    /\ cat_cli' = << >>
    /\ UNCHANGED <<selVars, fpsVars, dataVars, storeVars, keyVars, rtVars,
                   calVars, moreVars>>

InitCatalog == SelIdle /\ FpsIdle /\ DataIdle /\ StoreIdle /\ AuxIdle

NextCatalog == CallCollectFrames \/ CliMain \/ CatReturn

SpecCatalog == InitCatalog /\ [][NextCatalog]_vars

\* cat holds exactly the supported files of the listing, ascending by name
IsCatalogOf(cat, listing) ==
    /\ Range(cat) = {n \in Range(listing) : Supported(n)}
    /\ \A i, j \in 1 .. Len(cat) : i < j => StrLess(cat[i], cat[j])

(* C17: the frame catalog is a function of the set of filenames of the     *)
(* directory: exactly the files with a supported extension (compared       *)
(* case-insensitively), ascending by filename, whatever the order of       *)
(* enumeration; no parsed frame number orders or excludes a file. Stated   *)
(* of both collect_frames, the core's and select_frames_vit's.             *)
C17_CatalogSortedByFilename ==
    cat_pc = "done" =>
        /\ IsCatalogOf(cat_core, cat_listing)
        /\ IsCatalogOf(cat_cli, cat_listing)

\* what holds: the catalog of frame_selection_core.collect_frames
C17_CoreCatalogSortedByFilename ==
    cat_pc = "done" => IsCatalogOf(cat_core, cat_listing)

\* select_frames_vit: 9_b.jpg and 9_c.JPG come out in the order of
\* enumeration, here against the order of the filenames
C17_CliOrderFollowsEnumeration ==
    /\ cat_pc = "done"
    /\ cat_cli = << <<"9", "_", "c", ".", "J", "P", "G">>,
                    <<"9", "_", "b", ".", "j", "p", "g">> >>

----------------------------------------------------------------------------
(* Target-count auto-calibration, select_frames_vit.py:723-748 *)

\* largest --target-count
MaxTarget == 2

\* range(95, 0, -5)
FirstPercentile == 95

PercentileStep == 5

Schedule ==
    {q \in 1 .. FirstPercentile : (FirstPercentile - q) % PercentileStep = 0}

\* values of a total_change sample
CalTotalVals == 0 .. 1

\* the smoothed signals with args.*: entropy is flat, so that the
\* concentration and total_change thresholds decide
CalArgs ==
    {[total |-> t, conc |-> c, ent |-> [i \in 1 .. Len(c) |-> 0],
      total_change_percentile |-> tp, entropy_percentile |-> 100,
      min_spacing |-> ms, target_count |-> tc] :
        c \in UNION {[1 .. n -> ConcVals] : n \in 1 .. MaxLen},
        t \in UNION {[1 .. n -> CalTotalVals] : n \in 1 .. MaxLen},
        tp \in {50}, ms \in 1 .. MaxSpacing, tc \in 0 .. MaxTarget}

\* the thresholds of one step and select_candidate_frames with them
CalibrationRun(a, q) ==
    select_candidate_frames(
        Times100(a.total), Times100(a.conc), Times100(a.ent),
        Percentile100(a.conc, q),
        Percentile100(a.total, a.total_change_percentile),
        Percentile100(a.ent, a.entropy_percentile),
        a.min_spacing)

\* if len(candidates) <= args.target_count: break
StopsBelowTarget(count, target) == count < target

StopsAt(count, target) == count <= target

\* args.target_count is not None: the loop is entered
CalStart ==
    /\ cal_pc = "idle"
    /\ \E a \in CalArgs : Len(a.total) = Len(a.conc) /\ cal_args' = a
    /\ best_candidates' = << >>
    /\ percentile' = FirstPercentile
    /\ cal_runs' = 0
    /\ cal_pc' = "loop"
    /\ UNCHANGED <<selVars, fpsVars, dataVars, storeVars, keyVars, rtVars,
                   catVars, moreVars>>

\* one iteration of the for loop
CalStep ==
    /\ cal_pc = "loop"
    /\ LET candidates == CalibrationRun(cal_args, percentile)
       IN  /\ best_candidates' = candidates
           /\ cal_runs' = cal_runs + 1
           /\ IF StopsAt(Len(candidates), cal_args.target_count)
                 \/ percentile - PercentileStep <= 0
              THEN cal_pc' = "done" /\ UNCHANGED percentile
              ELSE /\ percentile' = percentile - PercentileStep
                   /\ cal_pc' = "loop"
    /\ UNCHANGED cal_args
    /\ UNCHANGED <<selVars, fpsVars, dataVars, storeVars, keyVars, rtVars,
                   catVars, moreVars>>

\* candidate_indices = best_candidates; main goes on
CalReturn ==
    /\ cal_pc = "done"
    /\ cal_pc' = "idle"
    /\ cal_args' = NoCalArgs
    /\ percentile' = 0
    /\ best_candidates' = << >>
    /\ cal_runs' = 0
    /\ UNCHANGED <<selVars, fpsVars, dataVars, storeVars, keyVars, rtVars,
                   catVars, moreVars>>

InitCalibration == SelIdle /\ FpsIdle /\ DataIdle /\ StoreIdle /\ AuxIdle

NextCalibration == CalStart \/ CalStep \/ CalReturn

SpecCalibration == InitCalibration /\ [][NextCalibration]_vars

\* the steps of the schedule whose candidate count is within the target
StepsWithinTarget(a) ==
    {q \in Schedule :
        Len(CalibrationRun(a, q)) <= a.target_count}

(* C19: auto-calibration walks the concentration percentile down the       *)
(* schedule 95, 90, ..., 5 with the caller's total_change and entropy      *)
(* percentiles; it ends at the first step whose count is <= the target     *)
(* and returns that step's candidates, or else returns those of the last   *)
(* step (percentile 5); it makes at most 19 selector runs.                 *)
C19_CalibrationSchedule ==
    /\ cal_runs <= 19
    /\ cal_pc = "loop" => percentile = 95 - 5 * cal_runs
    /\ cal_pc = "done" =>
          LET within == StepsWithinTarget(cal_args)
              stop == IF within = {} THEN 5 ELSE MaxOf(within)
          IN  /\ percentile = stop
              /\ best_candidates = CalibrationRun(cal_args, stop)
              /\ cal_runs = (95 - stop) \div 5 + 1

\* no step is within the target: all 19 steps ran and the candidates of
\* percentile 5, more than the target, are returned
C19_Witness ==
    /\ cal_pc = "done"
    /\ cal_runs = 19
    /\ percentile = 5
    /\ Len(best_candidates) > cal_args.target_count

\* lowering the concentration threshold never lowers the count, so the loop
\* ends within the target at its first step or not at all
C19_WithinTargetOnlyAtFirstStep ==
    (cal_pc = "done" /\ Len(best_candidates) <= cal_args.target_count)
        => cal_runs = 1

----------------------------------------------------------------------------
(* The 6-frame example: select_frames on 5 transitions *)

\* the transitions of a 6-frame sequence: transition i of the code is
\* position i + 1
ExampleTransitions == 1 .. 5

\* the concentration of the two engineered transitions, and of the others
PeakConcentrations == {5}

OtherConcVals == {1, 4}

SignalsOver(S) == [ExampleTransitions -> S]

\* values of a total_change sample, and of an entropy sample
ExampleTotalVals == 0 .. 2

ExampleEntropyVals == 0 .. 1

\* transitions 1 and 4 of the code are positions 2 and 5 here
ExamplePeaks == {2, 5}

\* concentration signals with the peak at transitions 1 and 4 only
ExampleConcentrations ==
    {c \in SignalsOver(OtherConcVals \cup PeakConcentrations) :
        \A i \in ExampleTransitions :
            (c[i] \in PeakConcentrations) <=> (i \in ExamplePeaks)}

\* FrameSelectionData(frames, total_change, concentration, entropy): the
\* smoothed signals start as copies of the raw ones, temporal_window = 1
NewFrameSelectionData ==
    /\ data_pc = "idle"
    /\ \E t \in SignalsOver(ExampleTotalVals),
          c \in ExampleConcentrations,
          e \in SignalsOver(ExampleEntropyVals) :
         /\ total_change_raw' = t
         /\ concentration_raw' = c
         /\ entropy_raw' = e
         /\ data_total_change' = t
         /\ data_concentration' = c
         /\ data_entropy' = e
    /\ temporal_window' = 1
    /\ data_pc' = "ready"
    /\ UNCHANGED <<patch_changes, concentration_percentile,
                   total_change_percentile, entropy_percentile,
                   data_min_spacing, selected_indices>>
    /\ UNCHANGED <<selVars, fpsVars, storeVars, auxVars>>

\* data.select_frames(80, 60, 100, 2)
SelectFramesExample ==
    /\ data_pc = "ready"
    /\ concentration_percentile' = 80
    /\ total_change_percentile' = 60
    /\ entropy_percentile' = 100
    /\ data_min_spacing' = 2
    /\ selected_indices' =
           select_frames(data_total_change, data_concentration,
                         data_entropy, 80, 60, 100, 2)
    /\ data_pc' = "selected"
    /\ UNCHANGED <<patch_changes, total_change_raw, concentration_raw,
                   entropy_raw, data_total_change, data_concentration,
                   data_entropy, temporal_window>>
    /\ UNCHANGED <<selVars, fpsVars, storeVars, auxVars>>

\* the data object is dropped with its selection
DropSelection ==
    /\ data_pc = "selected"
    /\ data_pc' = "idle"
    /\ patch_changes' = << >>
    /\ total_change_raw' = << >>
    /\ concentration_raw' = << >>
    /\ entropy_raw' = << >>
    /\ data_total_change' = << >>
    /\ data_concentration' = << >>
    /\ data_entropy' = << >>
    /\ temporal_window' = 1
    /\ concentration_percentile' = 0
    /\ total_change_percentile' = 0
    /\ entropy_percentile' = 0
    /\ data_min_spacing' = 1
    /\ selected_indices' = << >>
    /\ UNCHANGED <<selVars, fpsVars, storeVars, auxVars>>

InitExample == SelIdle /\ FpsIdle /\ DataIdle /\ StoreIdle /\ AuxIdle

NextExample == NewFrameSelectionData \/ SelectFramesExample \/ DropSelection

SpecExample == InitExample /\ [][NextExample]_vars

\* total_change of transitions 1 and 4 lies above its 60th percentile
PeaksAboveTotalPercentile ==
    \A i \in ExamplePeaks :
        100 * data_total_change[i] > Percentile100(data_total_change, 60)

(* C20: for 6 frames (5 transitions) whose transitions 1 and 4 have        *)
(* concentration 5, above all others, and total_change above the 60th      *)
(* percentile, select_frames with concentration_percentile 80,             *)
(* total_change_percentile 60, entropy_percentile 100 and min_spacing 2    *)
(* returns exactly the frame indices [2, 5].                               *)
C20_ExampleSelectsFrames2And5 ==
    (data_pc = "selected" /\ PeaksAboveTotalPercentile)
        => selected_indices = <<2, 5>>

\* the example has been selected from, with another transition of larger
\* entropy and a third of total_change below the peaks'
C20_Witness ==
    /\ data_pc = "selected"
    /\ PeaksAboveTotalPercentile
    /\ selected_indices = <<2, 5>>
    /\ data_concentration = <<4, 5, 1, 4, 5>>
    /\ data_entropy[2] = 0 /\ data_entropy[3] = 1

----------------------------------------------------------------------------
(* The geometric stage of get_transform, frame_selection_core.py:605-786 *)

\* largest width and height of an input image
MaxDim == 4

\* target sizes (image_size)
TargetSizes == {2, 3}

GeoModes == {"crop", "pad", "scale"}

Alignments == {"center", "top", "bottom", "left", "right"}

\* _ResizePreservingAspect.__call__: the (new_w, new_h) handed to resize;
\* int(h * size / w) of positive integers is the floor of the quotient
ResizeTarget(width, height, size, fit_inside) ==
    IF width = height THEN [width |-> size, height |-> size]
    ELSE IF fit_inside
    THEN IF width >= height
         THEN [width |-> size, height |-> (height * size) \div width]
         ELSE [width |-> (width * size) \div height, height |-> size]
    ELSE IF width <= height
         THEN [width |-> size, height |-> (height * size) \div width]
         ELSE [width |-> (width * size) \div height, height |-> size]

\* resize: an image of the asked size; PIL refuses a size below 1
Resized(target) ==
    IF target.width < 1 \/ target.height < 1
    THEN [state |-> "raised", width |-> target.width,
          height |-> target.height]
    ELSE [state |-> "image", width |-> target.width,
          height |-> target.height]

\* _AlignedCrop.__call__ on a width x height image: the crop box (left,
\* top) and the size of the result
AlignedCrop(img, size, alignment) ==
    IF img.width > img.height
    THEN [state |-> "image", width |-> size, height |-> img.height,
          left |-> IF alignment = "left" THEN 0
                   ELSE IF alignment = "right" THEN img.width - size
                   ELSE (img.width - size) \div 2,
          top |-> 0,
          content_width |-> img.width, content_height |-> img.height]
    ELSE IF img.height > img.width
    THEN [state |-> "image", width |-> img.width, height |-> size,
          left |-> 0,
          top |-> IF alignment = "top" THEN 0
                  ELSE IF alignment = "bottom" THEN img.height - size
                  ELSE (img.height - size) \div 2,
          content_width |-> img.width, content_height |-> img.height]
    ELSE [state |-> "image", width |-> img.width, height |-> img.height,
          left |-> 0, top |-> 0,
          content_width |-> img.width, content_height |-> img.height]

\* _AlignedPad.__call__: the size x size canvas and where the image is
\* pasted (left, top); an image already size x size is returned as it is
AlignedPad(img, size, alignment) ==
    IF img.width = img.height /\ img.height = size
    THEN [state |-> "image", width |-> size, height |-> size,
          left |-> 0, top |-> 0,
          content_width |-> img.width, content_height |-> img.height]
    ELSE [state |-> "image", width |-> size, height |-> size,
          left |-> IF img.width < img.height
                   THEN IF alignment = "left" THEN 0
                        ELSE IF alignment = "right" THEN size - img.width
                        ELSE (size - img.width) \div 2
                   ELSE 0,
          top |-> IF img.width < img.height THEN 0
                  ELSE IF img.height < img.width
                  THEN IF alignment = "top" THEN 0
                       ELSE IF alignment = "bottom" THEN size - img.height
                       ELSE (size - img.height) \div 2
                  ELSE 0,
          content_width |-> img.width, content_height |-> img.height]

\* the exception of resize leaves the Compose
GeoRaised(img) ==
    [state |-> "raised", width |-> 0, height |-> 0, left |-> 0, top |-> 0,
     content_width |-> img.width, content_height |-> img.height]

\* get_transform(image_size, config) applied to an image, up to ToTensor
ApplyTransform ==
    /\ geo_pc = "idle"
    /\ \E width \in 1 .. MaxDim, height \in 1 .. MaxDim,
          size \in TargetSizes, mode \in GeoModes,
          alignment \in Alignments :
         LET resized ==
                 IF mode = "scale"
                 THEN Resized([width |-> size, height |-> size])
                 ELSE Resized(ResizeTarget(width, height, size,
                                           mode = "pad"))
         IN  /\ geo_args' = [width |-> width, height |-> height,
                             image_size |-> size, mode |-> mode,
                             alignment |-> alignment]
             /\ geo_resized' = resized
             /\ geo_out' =
                   IF resized.state = "raised" THEN GeoRaised(resized)
                   ELSE IF mode = "crop"
                   THEN AlignedCrop(resized, size, alignment)
                   ELSE IF mode = "pad"
                   THEN AlignedPad(resized, size, alignment)
                   ELSE [state |-> "image", width |-> resized.width,
                         height |-> resized.height, left |-> 0, top |-> 0,
                         content_width |-> resized.width,
                         content_height |-> resized.height]
    /\ geo_pc' = "done"
    /\ UNCHANGED <<selVars, fpsVars, dataVars, storeVars, keyVars, rtVars,
                   catVars, calVars, manVars>>

\* the tensor is taken; the next image follows
GeoReturn ==
    /\ geo_pc = "done"
    /\ geo_pc' = "idle"
    /\ geo_args' = NoGeoArgs
    /\ geo_resized' = NoImage
    /\ geo_out' = NoGeoOut
    /\ UNCHANGED <<selVars, fpsVars, dataVars, storeVars, keyVars, rtVars,
                   catVars, calVars, manVars>>

InitTransform == SelIdle /\ FpsIdle /\ DataIdle /\ StoreIdle /\ AuxIdle

NextTransform == ApplyTransform \/ GeoReturn

SpecTransform == InitTransform /\ [][NextTransform]_vars

Smaller(a, b) == IF a < b THEN a ELSE b

Larger(a, b) == IF a > b THEN a ELSE b

\* the box (left, top) of the given size lies inside width x height
BoxInside(left, top, box_width, box_height, width, height) ==
    /\ left >= 0 /\ top >= 0
    /\ left + box_width <= width
    /\ top + box_height <= height

(* C29: for every input width and height >= 1, every target size and      *)
(* every alignment the geometric stage yields exactly size x size: in      *)
(* crop mode the resized image has its smaller dimension equal to size     *)
(* and the size x size crop window lies inside it; in pad mode the         *)
(* resized image has its larger dimension equal to size and its smaller    *)
(* in [1, size], and is pasted entirely inside the size x size canvas.     *)
C29_GeometricStageYieldsSquare ==
    (geo_pc = "done" /\ geo_args.mode \in {"crop", "pad"}) =>
        LET size == geo_args.image_size
        IN  /\ geo_out.state = "image"
            /\ geo_out.width = size /\ geo_out.height = size
            /\ geo_args.mode = "crop" =>
                  /\ Smaller(geo_resized.width, geo_resized.height) = size
                  /\ BoxInside(geo_out.left, geo_out.top, size, size,
                               geo_resized.width, geo_resized.height)
            /\ geo_args.mode = "pad" =>
                  /\ Larger(geo_resized.width, geo_resized.height) = size
                  /\ Smaller(geo_resized.width, geo_resized.height)
                         \in 1 .. size
                  /\ BoxInside(geo_out.left, geo_out.top,
                               geo_resized.width, geo_resized.height,
                               size, size)

\* what holds: crop mode, for all inputs
C29_CropYieldsSquare ==
    (geo_pc = "done" /\ geo_args.mode = "crop") =>
        /\ geo_out.state = "image"
        /\ geo_out.width = geo_args.image_size
        /\ geo_out.height = geo_args.image_size
        /\ Smaller(geo_resized.width, geo_resized.height)
              = geo_args.image_size
        /\ BoxInside(geo_out.left, geo_out.top, geo_args.image_size,
                     geo_args.image_size, geo_resized.width,
                     geo_resized.height)

\* what holds: pad mode, for the images no more than image_size times as
\* long as they are short
C29_PadYieldsSquare ==
    (geo_pc = "done" /\ geo_args.mode = "pad"
        /\ Larger(geo_args.width, geo_args.height)
              <= geo_args.image_size
                   * Smaller(geo_args.width, geo_args.height)) =>
        /\ geo_out.state = "image"
        /\ geo_out.width = geo_args.image_size
        /\ geo_out.height = geo_args.image_size
        /\ Larger(geo_resized.width, geo_resized.height)
              = geo_args.image_size
        /\ Smaller(geo_resized.width, geo_resized.height)
              \in 1 .. geo_args.image_size
        /\ BoxInside(geo_out.left, geo_out.top, geo_resized.width,
                     geo_resized.height, geo_args.image_size,
                     geo_args.image_size)

\* pad mode on a 3 x 1 image with image_size 2: the resize is asked for
\* height int(1 * 2 / 3) = 0
C29_PadResizeToNothing ==
    /\ geo_pc = "done"
    /\ geo_args = [width |-> 3, height |-> 1, image_size |-> 2,
                   mode |-> "pad", alignment |-> "center"]
    /\ geo_resized.height = 0
    /\ geo_out.state = "raised"

----------------------------------------------------------------------------
(* The manual selection of the visualizer's session,                       *)
(* frame_selection_visualizer.py:1390-1397, 1502-1519, 1591-1614,          *)
(* 1657-1672, 1705-1714, 1973-1993                                        *)

\* most frames of a loaded directory
MaxSessionFrames == 3

\* selected_for_preview_index is None
NoPreview == -1

\* frame indices of a FrameSelectionData of n frames
FrameIndices(n) == 0 .. (n - 1)

\* data.select_frames returns transition indices + 1
SelectorOutputs(n) == SUBSET (1 .. (n - 1))

\* _ensure_preview_selection
EnsurePreview(n, preview, current) ==
    IF n = 0 THEN NoPreview
    ELSE IF preview = NoPreview
    THEN IF current # {} THEN MinOf(current) ELSE 0
    ELSE MinOf({MaxOf({preview, 0}), n - 1})

\* apply_selection on a FrameSelectionData of n frames with the manual
\* sets ms and mu: the selector's output, then the manual sets applied
ApplySelectionOn(n, ms, mu) ==
    \E indices \in SelectorOutputs(n) :
        /\ selector_output' = indices
        /\ current_processing_selection' = (indices \cup ms) \ mu
        /\ selected_for_preview_index' =
              EnsurePreview(n, selected_for_preview_index,
                            (indices \cup ms) \ mu)

\* the force-selected set of the toggle without its discard
ForceSelectedKept(ms, mu, idx) ==
    IF idx \in ms THEN ms
    ELSE IF idx \in mu THEN ms
    ELSE ms \cup {idx}

\* _toggle_force_select: manually_selected after the toggle of idx
ForceSelectedAfter(ms, mu, idx) ==
    IF idx \in ms THEN ms \ {idx}
    ELSE IF idx \in mu THEN ms
    ELSE ms \cup {idx}

\* _toggle_force_select: manually_unselected after the toggle of idx
ForceUnselectedAfter(ms, mu, idx) ==
    IF idx \in ms THEN mu \cup {idx}
    ELSE IF idx \in mu THEN mu \ {idx}
    ELSE mu

ManOthers == <<selVars, fpsVars, dataVars, storeVars, keyVars, rtVars,
               catVars, calVars, geoVars>>

\* load_data stopping before any data is installed: fewer than two
\* frames, a broken cache, or the generation declined or handed to a worker
LoadDataStops ==
    /\ manually_selected' = {}
    /\ manually_unselected' = {}
    /\ UNCHANGED <<session_frames, selected_for_preview_index,
                   selector_output, current_processing_selection>>
    /\ UNCHANGED ManOthers

\* load_data loading a cache entry: _load_embeddings_succeeded
LoadDataInstalls ==
    /\ manually_selected' = {}
    /\ manually_unselected' = {}
    /\ \E n \in 2 .. MaxSessionFrames :
         /\ session_frames' = n
         /\ ApplySelectionOn(n, {}, {})
    /\ UNCHANGED ManOthers

ManLoadData == LoadDataStops \/ LoadDataInstalls

\* _on_embeddings_finished: a worker's embeddings installed by
\* _load_embeddings_succeeded
ManEmbeddingsFinished ==
    /\ \E n \in 2 .. MaxSessionFrames :
         /\ session_frames' = n
         /\ ApplySelectionOn(n, manually_selected, manually_unselected)
    /\ UNCHANGED <<manually_selected, manually_unselected>>
    /\ UNCHANGED ManOthers

\* set_selected_for_preview(index)
SetSelectedForPreview ==
    /\ session_frames # 0
    /\ \E index \in -1 .. MaxSessionFrames :
         selected_for_preview_index' =
             MaxOf({0, MinOf({index, session_frames - 1})})
    /\ UNCHANGED <<session_frames, manually_selected, manually_unselected,
                   selector_output, current_processing_selection>>
    /\ UNCHANGED ManOthers

\* _toggle_force_select
ToggleForceSelect ==
    /\ session_frames # 0
    /\ selected_for_preview_index # NoPreview
    /\ LET idx == selected_for_preview_index
       IN  /\ manually_selected' =
                 ForceSelectedAfter(manually_selected, manually_unselected,
                                    idx)
           /\ manually_unselected' =
                 ForceUnselectedAfter(manually_selected,
                                      manually_unselected, idx)
    /\ ApplySelectionOn(session_frames, manually_selected',
                        manually_unselected')
    /\ UNCHANGED session_frames
    /\ UNCHANGED ManOthers

\* apply_selection
ApplySelection ==
    /\ session_frames # 0
    /\ ApplySelectionOn(session_frames, manually_selected,
                        manually_unselected)
    /\ UNCHANGED <<session_frames, manually_selected, manually_unselected>>
    /\ UNCHANGED ManOthers

InitManual == SelIdle /\ FpsIdle /\ DataIdle /\ StoreIdle /\ AuxIdle

NextManual ==
    \/ ManLoadData
    \/ ManEmbeddingsFinished
    \/ SetSelectedForPreview
    \/ ToggleForceSelect
    \/ ApplySelection

SpecManual == InitManual /\ [][NextManual]_vars

\* the step ran apply_selection to its end
SelectionApplied ==
    \/ LoadDataInstalls
    \/ ManEmbeddingsFinished
    \/ ToggleForceSelect
    \/ ApplySelection

\* the toggle moved the previewed frame one step along
\* neutral -> force-selected -> force-unselected -> neutral
\* and left every other frame where it was
ToggleCycles ==
    LET idx == selected_for_preview_index
    IN  /\ (idx \notin manually_selected /\ idx \notin manually_unselected)
              => (idx \in manually_selected'
                    /\ idx \notin manually_unselected')
        /\ idx \in manually_selected
              => (idx \notin manually_selected'
                    /\ idx \in manually_unselected')
        /\ (idx \notin manually_selected /\ idx \in manually_unselected)
              => (idx \notin manually_selected'
                    /\ idx \notin manually_unselected')
        /\ manually_selected' \ {idx} = manually_selected \ {idx}
        /\ manually_unselected' \ {idx} = manually_unselected \ {idx}

(* C30: in a session of the visualizer, after any sequence of             *)
(* force-toggles, apply_selection and load_data, the force-selected and    *)
(* the force-unselected sets are disjoint; a toggle moves the previewed    *)
(* frame along neutral -> force-selected -> force-unselected -> neutral;   *)
(* and after every apply_selection the processing selection is the         *)
(* selector's output plus the force-selected frames minus the              *)
(* force-unselected ones.                                                  *)
C30_ManualSelection ==
    [][ /\ manually_selected' \cap manually_unselected' = {}
        /\ ToggleForceSelect => ToggleCycles
        /\ SelectionApplied =>
              current_processing_selection' =
                  (selector_output' \cup manually_selected')
                      \ manually_unselected' ]_vars

\* a frame the selector chose is force-unselected and a frame it did not
\* choose is force-selected
C30_Witness ==
    /\ session_frames # 0
    /\ manually_unselected \cap selector_output # {}
    /\ manually_selected \ selector_output # {}
    /\ current_processing_selection =
          (selector_output \cup manually_selected) \ manually_unselected
    /\ current_processing_selection # selector_output

----------------------------------------------------------------------------
(* The selector against its reference computation (SpecSelect) *)

\* frames whose transition passes the three thresholds (transition i of
\* the code, frame i + 1, is position i + 1 of the signals here)
ReferenceCandidates ==
    {f \in 1 .. Len(concentration) :
        /\ concentration[f] >= concentration_threshold
        /\ total_change[f] >= total_change_threshold
        /\ entropy[f] <= entropy_threshold}

\* candidates not below any in-range transition within +/- min_spacing
ReferenceSurvivors ==
    {f \in ReferenceCandidates :
        \A g \in 1 .. Len(concentration) :
            (g # f /\ Abs(g - f) <= min_spacing)
                => concentration[f] >= concentration[g]}

\* kept is what the greedy scan of the survivors keeps: the first, and
\* each later one at least min_spacing past the last kept before it
IsGreedyScan(kept, survivors) ==
    /\ kept \subseteq survivors
    /\ \A f \in survivors :
          LET before == {k \in kept : k < f}
          IN  f \in kept <=>
                 (before = {} \/ f - MaxOf(before) >= min_spacing)

(* C23: the selector's output is the reference computation: the            *)
(* transitions passing the three thresholds, mapped to frame i+1, kept     *)
(* when their concentration is >= that of every in-range transition        *)
(* within +/- min_spacing (equal keeps), then scanned in increasing order  *)
(* keeping the first and every later one at least min_spacing past the     *)
(* last kept.                                                              *)
C23_SelectorEqualsReference ==
    sel_pc = "done" =>
        /\ \A k \in 1 .. Len(final_selected) - 1 :
              final_selected[k] < final_selected[k + 1]
        /\ IsGreedyScan(Range(final_selected), ReferenceSurvivors)

\* two tied neighbours both survive the local-maximum filter and the scan
\* drops the second, while a third survivor further on is kept
C23_Witness ==
    /\ sel_pc = "done"
    /\ min_spacing = 2
    /\ ReferenceSurvivors = {1, 2, 3}
    /\ final_selected = <<1, 3>>

----------------------------------------------------------------------------
(* Cache hit and forced recomputation of load_or_compute_embeddings *)

\* a valid entry of the key that matches the config, its array decodable
ValidMatchingEntry(entry, config) ==
    /\ entry.json.state = "valid"
    /\ entry.json.version = 1
    /\ EmbeddingConfigEq(entry.json.config, config)
    /\ entry.pt.state = "complete"

(* C22: with force=False and a valid matching cache entry,                 *)
(* load_or_compute_embeddings returns (cached array, True) without         *)
(* invoking the backend or the progress callback and without creating,     *)
(* changing or deleting a file; with force=True it never reads the cache,  *)
(* always invokes the backend and returns from_cache=False.                *)
C22_CacheHitAndForce ==
    /\ (w_pc # "none" /\ w_check_view.checked
            /\ ValidMatchingEntry(w_check_view.entry, w.config)) =>
          /\ ~w.force
          /\ w_pc \in {"returned", "done"}
          /\ w_result = Returned(w_check_view.entry.pt, TRUE)
          /\ ~backend_invoked
          /\ w_done = 0
          /\ w_exc = "none"
          /\ files = files_at_start
    /\ (w_pc # "none" /\ w.force) =>
          /\ w_check_view = Unchecked
          /\ w_pc \notin {"start", "load_model"} => backend_invoked
          /\ w_result.state = "returned" => ~w_result.from_cache

\* a second run on the same frames and config has been served from the
\* cache
C22_Witness ==
    /\ w_pc = "done"
    /\ ~w.force
    /\ w_result.state = "returned" /\ w_result.from_cache
    /\ w_result.tensor.rows = Len(w.frames)
    /\ ~backend_invoked
    /\ files = files_at_start

----------------------------------------------------------------------------
(* The installed embeddings against the catalog (SpecSession) *)

(* C25: whenever the session installs embeddings, from a cache entry       *)
(* chosen in load_data or from a finished worker run, the array has        *)
(* exactly one row per frame of the current catalog, so every index the    *)
(* selector produces is an index of the catalog's frame list.              *)
C25_InstalledRowPerFrame ==
    installed.source # "none" => installed.rows = installed.frames

\* what holds: the embeddings a finished worker run hands over
C25_WorkerInstallsRowPerFrame ==
    installed.source = "worker" => installed.rows = installed.frames

\* load_data has installed a cache entry with more rows than the catalog
\* has frames: the selector can return an index past the frame list
C25_CacheLongerThanCatalog ==
    /\ installed.source = "cache"
    /\ installed.rows > installed.frames

----------------------------------------------------------------------------
(* The signals of a cancelled worker (SpecStore) *)

(* C26: under every interleaving of the GUI thread and the worker thread,  *)
(* once cancel() has been called on a worker the GUI never installs that   *)
(* worker's embeddings (_on_embeddings_finished does not run for it) and   *)
(* never reports an error for it.                                          *)
C26_CancelledNeverDelivered ==
    [][is_cancelled => handled' # handled + 1]_vars

\* what holds: a worker that reads its flag after cancel() emits nothing
C26_NothingEmittedAfterCancel ==
    [][is_cancelled => emitted' = emitted \/ emitted' = << >>]_vars

\* the finished signal was queued before cancel() and handled after it
C26_InstalledAfterCancel ==
    /\ is_cancelled
    /\ handled = 1
    /\ emitted = <<"finished">>
    /\ installed.source = "worker"

----------------------------------------------------------------------------
(* What a reader of the cache directory sees (SpecStore) *)

(* C27: under every interleaving of a reader with save_embeddings_cache    *)
(* (clear_others true or false), clear_other_caches and clear_cache_dir,   *)
(* every sidecar file present in the cache directory has its array file    *)
(* present: no mutator exposes a metadata-only entry.                      *)
C27_NoMetadataOnlyEntry ==
    \A k \in Keys :
        files[k].json.state # "absent" => files[k].pt.state # "absent"

\* clear_other_caches has unlinked the array of another entry and not yet
\* its sidecar, which is still a valid one
C27_MetadataOnlyDuringClear ==
    /\ clr.owner = "save"
    /\ clr.phase = "pt"
    /\ \E k \in Keys \ {clr.keep} :
          /\ files[k].pt.state = "absent"
          /\ files[k].json.state = "valid"

----------------------------------------------------------------------------
(* Temporal smoothing of the three signals (SpecData) *)

\* (raw, smoothed) of each of the three signals of the data object
SignalPairs ==
    {<<total_change_raw, data_total_change>>,
     <<concentration_raw, data_concentration>>,
     <<entropy_raw, data_entropy>>}

(* C21: temporal_smoothing(signal, 1) returns the signal unchanged, and    *)
(* for every window > 1, odd or even, also larger than the signal, and     *)
(* every signal of length >= 1 the output is as long as the input.         *)
C21_SmoothingKeepsLength ==
    data_pc # "idle" =>
        \A pair \in SignalPairs :
            /\ Len(pair[2]) = Len(pair[1])
            /\ temporal_smoothing(pair[1], 1) = pair[1]
            /\ \A window \in 2 .. MaxWindow :
                   Len(temporal_smoothing(pair[1], window)) = Len(pair[1])

\* an even window larger than the signal has been applied
C21_Witness ==
    /\ data_pc = "ready"
    /\ temporal_window = 2
    /\ Len(total_change_raw) = 1
    /\ Len(data_total_change) = 1

\* the position of the signal that position p stands for, positions
\* outside the signal replaced by the nearest boundary position
Clamp(p, n) == IF p < 1 THEN 1 ELSE IF p > n THEN n ELSE p

\* the sum of the values of the window that starts window \div 2 before i
WindowSum(signal, i, window) ==
    SumSeq([k \in 1 .. window |->
               signal[Clamp(i - (window \div 2) + k - 1, Len(signal))]])

Reverse(s) == [i \in 1 .. Len(s) |-> s[Len(s) + 1 - i]]

(* C24, as stated: for every window w >= 1, odd or even, the smoothed      *)
(* value at i is the mean of the w raw values of the window centred on i,  *)
(* with edge replication.  A window centred on i treats both sides of i    *)
(* alike, so smoothing the reversed signal gives the reversed smoothing.   *)
C24_WindowCentred ==
    data_pc # "idle" =>
        \A pair \in SignalPairs :
            temporal_smoothing(Reverse(pair[1]), temporal_window)
                = Reverse(pair[2])

(* C24, amended: the smoothed value at i is the mean of the w raw values   *)
(* at positions i - w div 2 .. i - w div 2 + w - 1, with edge              *)
(* replication: centred on i for odd w, one position to the left of        *)
(* centre for even w.                                                      *)
C24_WindowFromHalfBefore ==
    data_pc # "idle" =>
        /\ SmoothDen(temporal_window) = temporal_window
        /\ \A pair \in SignalPairs :
              \A i \in 1 .. Len(pair[1]) :
                  pair[2][i] = WindowSum(pair[1], i, temporal_window)

\* an even window over a signal whose two values differ: the first value
\* is counted twice at position 1, the second once at position 2
C24_Witness ==
    /\ data_pc = "ready"
    /\ temporal_window = 2
    /\ Len(total_change_raw) = 2
    /\ total_change_raw[1] # total_change_raw[2]
    /\ data_total_change =
          <<2 * total_change_raw[1],
            total_change_raw[1] + total_change_raw[2]>>

(* C28: after any sequence of apply_smoothing calls the three smoothed     *)
(* signals are temporal_smoothing(raw, w) of the unchanged raw signals     *)
(* for the last window w, and temporal_window is w: smoothing is           *)
(* recomputed from raw, and no operation modifies the raw signals.         *)
C28_SmoothedFromRaw ==
    [][ /\ (data_pc # "idle" /\ data_pc' # "idle") =>
              /\ total_change_raw' = total_change_raw
              /\ concentration_raw' = concentration_raw
              /\ entropy_raw' = entropy_raw
        /\ data_pc' # "idle" =>
              /\ data_total_change' =
                    temporal_smoothing(total_change_raw', temporal_window')
              /\ data_concentration' =
                    temporal_smoothing(concentration_raw', temporal_window')
              /\ data_entropy' =
                    temporal_smoothing(entropy_raw', temporal_window')
        /\ ApplySmoothing =>
              \E window \in 1 .. MaxWindow :
                  /\ temporal_window' = window
                  /\ data_total_change' =
                        temporal_smoothing(total_change_raw, window)
      ]_vars

\* a window of 3 is in force and the smoothed signal differs from the raw
C28_Witness ==
    /\ data_pc = "ready"
    /\ temporal_window = 3
    /\ data_total_change # total_change_raw
    /\ data_total_change = temporal_smoothing(total_change_raw, 3)

----------------------------------------------------------------------------
(* The entry points: one program run is the visualizer or the CLI *)

\* the directory given to the program holds no frame, or two
InitEntryPoints ==
    /\ SelIdle /\ FpsIdle /\ DataIdle /\ AuxIdle
    /\ \E n \in {0, 2} : StoreOpenedOn(EmptyDir, n)

\* the visualizer: the directory is opened, its frames change, embeddings
\* are generated to the end (no cancel)
NextVisualizer ==
    \/ ChangeFrames
    \/ LoadData
    \/ StartWorker
    \/ GuiOnFinished
    \/ GuiOnError
    \/ WorkerStep
    \/ ClearStep

NextEntryPoints ==
    \/ cat_pc = "idle" /\ NextVisualizer
    \/ StoreIdle /\ NextCatalog

SpecEntryPoints == InitEntryPoints /\ [][NextEntryPoints]_vars

====
